---- MODULE Spec2Model ----
(***************************************************************************)
(* A model of perf_timer.py: the per-thread timing stack of PerfTimer      *)
(* (__enter__ / __exit__), the replay loop of the module's __main__ block, *)
(* and the binary / JSON log decoder in front of it.                       *)
(*                                                                         *)
(* Representation.                                                         *)
(*  - A string is the sequence of its character codes ("A" is <<65>>), so  *)
(*    that concatenation, search and replacement are computed and bytes    *)
(*    and characters of an ASCII name coincide.                            *)
(*  - An optional value (Python's None or a value) is <<>> or <<v>>.       *)
(*  - A time is an integer number of clock ticks.  The replay loop divides *)
(*    the nanosecond timestamp of a record by 10^9 before use; that        *)
(*    changes the unit of every timestamp alike, and the model keeps the   *)
(*    tick as the unit on both the live and the replayed path (binary      *)
(*    floating point rounding is outside the model).                       *)
(***************************************************************************)
EXTENDS Integers, Sequences, FiniteSets, TLC

(***************************************************************************)
(* Bounds of the model.                                                    *)
(***************************************************************************)
MaxTime == 3
MaxRecords == 6
MaxDepth == 3
MaxTimers == 3
MaxRegions == 3
MaxNotes == 1
MaxEvents == 2
MaxQueue == 3
MinFrameMs == 5

(***************************************************************************)
(* Program constants.                                                      *)
(***************************************************************************)
Enter == 0
Exit == 1
Note == 2

None == <<>>
Some(v) == <<v>>

\* "::"
Sep == <<58, 58>>
\* "<unknown>"
Unknown == <<60, 117, 110, 107, 110, 111, 119, 110, 62>>
\* "A", "B": the block names the instrumented program uses
NameA == <<65>>
NameB == <<66>>
Names == {NameA, NameB}

Threads == {1, 2}
\* frame ids as they appear in a log record: -1 is the "no frame" sentinel
FrameIds == {-1, 0}
Times == 0 .. MaxTime

\* stack[0] instead of stack[-1]
First(s) == s[1]

Last(s) == s[Len(s)]
Front(s) == SubSeq(s, 1, Len(s) - 1)

VARIABLES
    program,        \* which entry point runs: "live" (instrumented program) or "replay" (__main__)
    clock,          \* clock[t]: the last timestamp thread t has seen
    ordered,        \* ordered[t]: the timestamps thread t has seen never decreased
    stacks,         \* replay: stacks[threadId], the list of timers in flight
    lastEnd,        \* replay: lastEnd[threadId][frameId], None or a timestamp
    recording,      \* replay: the loop variable, the record being processed
    i,              \* replay: the loop's count of records read
    pc,             \* replay: "loop", "KeyError"/"IndexError" (uncaught), "exit1"
    replayQueue,    \* replay: PerfTimer.perfQueue of the replay process
    replayNotes,    \* replay: PerfTimer.annotations of the replay process
    replayChildLog, \* history: for each entry of replayQueue, the inclusive time of its direct children
    collecting,     \* live: _collecting
    timers,         \* live: the PerfTimer objects alive, by object identity
    perfStack,      \* live: PerfTimer.perfStack.stack of each thread (object identities)
    blocks,         \* live: the with-blocks each thread is inside, innermost last
    raised,         \* live: the threads in which an exception left __exit__
    perfQueue,      \* live: PerfTimer.perfQueue
    annotations,    \* live: PerfTimer.annotations
    liveChildLog,   \* history: for each entry of perfQueue, the inclusive time of its direct children
    datas,          \* log writer: the list of records "test_write_*" has built
    file,           \* the bytes of the log file
    written,        \* "no", or the format the file was written in: "binary", "json"
    truncated,      \* the file was cut short after it was written
    loadResult,     \* decoder: None, or how the decoder ended and the recordings it built
    recordings,     \* replay: the records of the log so far, read by the loop or not
    minFrameTime,   \* report: PerfTimer.minFrameTime, None or a number of milliseconds
    reportStatus,   \* report: "none", "returned", or the exception that left PrintPerfReport
    passes,         \* report: what each call of _printPerfReport in the last PrintPerfReport built
    drained,        \* history: the events and the annotations the last PrintPerfReport found queued
    reporting       \* report: None, or the position and the locals of a PrintPerfReport that
                    \* runs while a producer thread runs, and the events its passes took

replayVars == <<stacks, lastEnd, recording, i, pc, replayQueue, replayNotes, replayChildLog>>
liveVars == <<collecting, timers, perfStack, blocks, raised, perfQueue, annotations, liveChildLog>>
envVars == <<program, clock, ordered>>
codecVars == <<datas, file, written, truncated, loadResult>>
reportVars == <<minFrameTime, reportStatus, passes, drained, reporting>>
vars == <<envVars, replayVars, liveVars, codecVars, recordings, reportVars>>

(***************************************************************************)
(* PerfTimer.__init__ with _collecting set: the fields of a new timer.     *)
(* childInc is a history field the code does not have: the sum of the      *)
(* inclusive durations of the regions that exited directly under this one. *)
(***************************************************************************)
NewTimer(blockName, frame, threadId) ==
    [blockName |-> blockName, frame |-> frame, incstart |-> 0, excstart |-> 0,
     exclusive |-> 0, inclusive |-> 0, scopeName |-> blockName,
     threadId |-> threadId, full |-> TRUE, childInc |-> 0]

\* The tuple appended to PerfTimer.perfQueue.
CompletedEvent(scopeName, inclusive, exclusive, threadId, frame, start, end) ==
    <<scopeName, inclusive, exclusive, threadId, frame, start, end>>

(***************************************************************************)
(* The replay loop of __main__ , one iteration per action.                 *)
(***************************************************************************)
\* frameId if frameId > 0 else None
TimerFramePositive(frameId) == IF frameId > 0 THEN Some(frameId) ELSE None

\* frameId if frameId >= 0 else None
TimerFrame(frameId) == IF frameId >= 0 THEN Some(frameId) ELSE None

\* prev.scopeName + "::" + blockName, with the parent left out
ScopeNameWithoutParent(prev, blockName) == blockName

\* prev.scopeName + "::" + blockName
ScopeName(prev, blockName) == prev.scopeName \o Sep \o blockName

\* the parent's exclusive time left as it was when a child is entered
SuspendWithoutExclusive(prev, timestamp) == prev

\* prev.exclusive += timestamp - prev.excstart
Suspend(prev, timestamp) ==
    [prev EXCEPT !.exclusive = @ + (timestamp - prev.excstart)]

\* the parent's excstart left as it was when its child exits
ResumeWithoutReset(prev, timestamp, childInclusive) ==
    [prev EXCEPT !.childInc = @ + childInclusive]

\* prev.excstart = timestamp
Resume(prev, timestamp, childInclusive) ==
    [prev EXCEPT !.excstart = timestamp, !.childInc = @ + childInclusive]

\* the inclusive duration measured from excstart instead of incstart
FinishFromExcstart(timer, timestamp) ==
    [timer EXCEPT !.exclusive = @ + (timestamp - timer.excstart),
                  !.inclusive = timestamp - timer.excstart]

\* timer.exclusive += timestamp - timer.excstart; timer.inclusive = timestamp - timer.incstart
Finish(timer, timestamp) ==
    [timer EXCEPT !.exclusive = @ + (timestamp - timer.excstart),
                  !.inclusive = timestamp - timer.incstart]

ReplayEnter(threadId, frameId, timestamp, name) ==
    LET timer == NewTimer(name, TimerFrame(frameId), threadId)
        stack == stacks[threadId]
        started(t) == [t EXCEPT !.incstart = timestamp, !.excstart = timestamp]
    IN  IF stack /= <<>>
        THEN LET prev == Suspend(Last(stack), timestamp)
                 pushed == [timer EXCEPT !.scopeName = ScopeName(prev, timer.blockName)]
             IN  /\ stacks' = [stacks EXCEPT ![threadId] = Front(stack) \o <<prev, started(pushed)>>]
                 /\ UNCHANGED <<lastEnd, replayQueue, replayChildLog>>
        ELSE LET lastEndThisFrameAndThread == lastEnd[threadId][frameId]
             IN  /\ IF lastEndThisFrameAndThread /= None
                    THEN LET duration == timestamp - lastEndThisFrameAndThread[1]
                         IN  /\ lastEnd' = [lastEnd EXCEPT ![threadId][frameId] = None]
                             /\ replayQueue' = Append(replayQueue,
                                    CompletedEvent(Unknown, duration, duration, threadId,
                                                   Some(frameId), lastEndThisFrameAndThread[1], timestamp))
                             /\ replayChildLog' = Append(replayChildLog, 0)
                    ELSE UNCHANGED <<lastEnd, replayQueue, replayChildLog>>
                 /\ stacks' = [stacks EXCEPT ![threadId] = <<started(timer)>>]

ReplayExit(threadId, frameId, timestamp) ==
    LET stack == stacks[threadId]
        timer == Finish(Last(stack), timestamp)
    IN  /\ stack /= <<>>
        /\ IF Len(stack) >= 2
           THEN /\ stacks' = [stacks EXCEPT ![threadId] =
                        SubSeq(stack, 1, Len(stack) - 2)
                            \o <<Resume(stack[Len(stack) - 1], timestamp, timer.inclusive)>>]
                /\ UNCHANGED lastEnd
           ELSE /\ stacks' = [stacks EXCEPT ![threadId] = <<>>]
                /\ lastEnd' = [lastEnd EXCEPT ![threadId][frameId] = Some(timestamp)]
        /\ replayQueue' = Append(replayQueue,
                CompletedEvent(timer.scopeName, timer.inclusive, timer.exclusive,
                               timer.threadId, timer.frame, timer.incstart, timestamp))
        /\ replayChildLog' = Append(replayChildLog, timer.childInc)

\* One iteration of "for recording in recordings".
ReplayRecord(rec) ==
    LET operation == rec[1]
        threadId == rec[2]
        frameId == rec[3]
        timestamp == rec[4]
        name == rec[5]
    IN  /\ pc = "loop"
        /\ i < MaxRecords
        /\ i' = i + 1
        /\ recording' = rec
        /\ CASE operation = Enter ->
                  /\ Len(stacks[threadId]) < MaxDepth
                  /\ ReplayEnter(threadId, frameId, timestamp, name)
                  /\ UNCHANGED <<pc, replayNotes>>
             [] operation = Exit /\ stacks[threadId] /= <<>> ->
                  /\ ReplayExit(threadId, frameId, timestamp)
                  /\ UNCHANGED <<pc, replayNotes>>
             [] operation = Exit /\ stacks[threadId] = <<>> ->
                  \* timer = stacks[threadId][-1] raises KeyError (no list yet for
                  \* the thread) or IndexError (its list is empty); nothing catches it
                  /\ pc' = "crashed"
                  /\ UNCHANGED <<stacks, lastEnd, replayQueue, replayNotes, replayChildLog>>
             [] operation = Note ->
                  /\ replayNotes' = Append(replayNotes, <<name, threadId, frameId, timestamp>>)
                  /\ UNCHANGED <<pc, stacks, lastEnd, replayQueue, replayChildLog>>
             [] OTHER ->
                  \* print("Invalid operation"); exit(1)
                  /\ pc' = "exit1"
                  /\ UNCHANGED <<stacks, lastEnd, replayQueue, replayNotes, replayChildLog>>

(***************************************************************************)
(* The live path: "with PerfTimer(blockName, frame):" on a thread.         *)
(* A PerfTimer built while _collecting is off has no attributes: the model *)
(* keeps such an object with full = FALSE and placeholder fields.          *)
(***************************************************************************)
TimerIds == 1 .. MaxTimers

FreeIds == TimerIds \ DOMAIN timers

NewId == CHOOSE id \in FreeIds : \A other \in FreeIds : id <= other

\* PerfTimer.__init__ with _collecting off: no attribute is set.
BareTimer == [NewTimer(<<>>, None, 0) EXCEPT !.full = FALSE]

\* The objects some stack or some open with-block still refers to.
Referenced(stackOf, blocksOf) ==
    {id \in TimerIds : \E t \in Threads :
        \/ \E k \in DOMAIN stackOf[t] : stackOf[t][k] = id
        \/ \E k \in DOMAIN blocksOf[t] : blocksOf[t][k] = id}

\* Reference counting frees an object nothing refers to.
Collect(heap, stackOf, blocksOf) ==
    [id \in DOMAIN heap \cap Referenced(stackOf, blocksOf) |-> heap[id]]

\* self.incstart = now; self.excstart = now
Started(obj, now) == [obj EXCEPT !.incstart = now, !.excstart = now]

\* PerfTimer.__enter__ of the object self of heap, on thread t, at time now.
PerfTimerEnter(t, self, heap, now) ==
    LET stack == perfStack[t]
    IN  IF ~collecting
        THEN /\ timers' = heap
             /\ UNCHANGED perfStack
        ELSE IF stack /= <<>> /\ heap[Last(stack)].full
        THEN LET prevId == Last(stack)
                 prev == Suspend(heap[prevId], now)
                 h1 == [heap EXCEPT ![prevId] = prev]
             IN  IF h1[self].full
                 THEN /\ perfStack' = [perfStack EXCEPT ![t] = Append(stack, self)]
                      /\ timers' = [h1 EXCEPT ![self] =
                            Started([h1[self] EXCEPT !.scopeName =
                                        ScopeName(prev, h1[self].blockName)], now)]
                 ELSE \* self.blockName raises AttributeError after prev.exclusive
                      \* was updated; the bare except replaces the stack
                      /\ perfStack' = [perfStack EXCEPT ![t] = <<self>>]
                      /\ timers' = [h1 EXCEPT ![self] = Started(@, now)]
        ELSE \* no stack yet, an empty stack, or prev.exclusive raises AttributeError
             /\ perfStack' = [perfStack EXCEPT ![t] = <<self>>]
             /\ timers' = [heap EXCEPT ![self] = Started(@, now)]

\* with PerfTimer(blockName, frame): __init__ and then __enter__
With(t, blockName, frame, now) ==
    /\ t \notin raised
    /\ FreeIds /= {}
    /\ Len(blocks[t]) < MaxDepth
    /\ LET self == NewId
           obj == IF collecting THEN NewTimer(blockName, frame, t) ELSE BareTimer
       IN  /\ PerfTimerEnter(t, self, (self :> obj) @@ timers, now)
           /\ blocks' = [blocks EXCEPT ![t] = Append(@, self)]
    /\ UNCHANGED <<collecting, raised, perfQueue, annotations, liveChildLog>>

\* __exit__ without the append to PerfTimer.perfQueue
EndWithoutEvent(t, now) ==
    /\ blocks[t] /= <<>>
    /\ blocks' = [blocks EXCEPT ![t] = Front(@)]
    /\ perfStack' = [perfStack EXCEPT ![t] = Front(@)]
    /\ timers' = Collect(timers, perfStack', blocks')
    /\ UNCHANGED <<collecting, annotations, raised, perfQueue, liveChildLog>>

\* Leaving the innermost with-block: PerfTimer.__exit__ of its object.
EndWith(t, now) ==
    /\ blocks[t] /= <<>>
    /\ LET self == Last(blocks[t])
           stack == perfStack[t]
           closed == [blocks EXCEPT ![t] = Front(@)]
           popped == [perfStack EXCEPT ![t] = Front(@)]
           inclusive == now - timers[self].incstart
           h1 == IF Len(stack) >= 2
                 THEN [timers EXCEPT ![stack[Len(stack) - 1]] = Resume(@, now, inclusive)]
                 ELSE timers
           h2 == [h1 EXCEPT ![self] = Finish(@, now)]
           done == h2[self]
       IN  /\ blocks' = closed
           /\ IF ~collecting
              THEN /\ timers' = Collect(timers, perfStack, closed)
                   /\ UNCHANGED <<perfStack, raised, perfQueue, liveChildLog>>
              ELSE IF ~timers[self].full
              THEN \* self.exclusive raises AttributeError
                   /\ raised' = raised \cup {t}
                   /\ timers' = Collect(h1, perfStack, closed)
                   /\ UNCHANGED <<perfStack, perfQueue, liveChildLog>>
              ELSE /\ perfQueue' = Append(perfQueue,
                          CompletedEvent(done.scopeName, done.inclusive, done.exclusive,
                                         done.threadId, done.frame, done.incstart, now))
                   /\ liveChildLog' = Append(liveChildLog, done.childInc)
                   /\ IF stack /= <<>>
                      THEN /\ perfStack' = popped
                           /\ timers' = Collect(h2, popped, closed)
                           /\ UNCHANGED raised
                      ELSE \* PerfTimer.perfStack.stack.pop() raises
                           /\ raised' = raised \cup {t}
                           /\ timers' = Collect(h2, perfStack, closed)
                           /\ UNCHANGED perfStack
    /\ UNCHANGED <<collecting, annotations>>

\* Note without the test of _collecting
LiveNoteAlways(t, txt, frame, now) ==
    /\ t \notin raised
    /\ Len(annotations) < MaxNotes
    /\ annotations' = Append(annotations, <<txt, t, frame, now>>)
    /\ UNCHANGED <<collecting, timers, perfStack, blocks, raised, perfQueue, liveChildLog>>

\* PerfTimer.Note(txt, frame)
LiveNote(t, txt, frame, now) ==
    /\ t \notin raised
    /\ Len(annotations) < MaxNotes
    /\ IF collecting
       THEN annotations' = Append(annotations, <<txt, t, frame, now>>)
       ELSE UNCHANGED annotations
    /\ UNCHANGED <<collecting, timers, perfStack, blocks, raised, perfQueue, liveChildLog>>

\* EnablePerfTracking(enable); DisablePerfTracking() is EnablePerfTracking(False)
EnablePerfTracking(enable) ==
    /\ collecting' = enable
    /\ UNCHANGED <<timers, perfStack, blocks, raised, perfQueue, annotations, liveChildLog>>

(***************************************************************************)
(* The log file: the binary writer of "test_write_binary", json.dump of    *)
(* "test_write_json", and the decoder at the head of the replay program.   *)
(* A file is the sequence of its bytes.  The model identifies an ASCII     *)
(* name with its bytes (data[4].encode("ascii") when written,              *)
(* name.decode("ascii") in the replay loop).                               *)
(***************************************************************************)
\* 0xFA57
Magic == 64087
\* 1 + 8 + 4 + 8 + 2, the size of "<bQiQH"
HeaderSize == 23

\* struct.pack of an unsigned field of n bytes, little-endian
RECURSIVE LittleEndian(_, _)
LittleEndian(v, n) ==
    IF n = 0 THEN <<>> ELSE <<v % 256>> \o LittleEndian(v \div 256, n - 1)

\* struct.pack of a signed field of n bytes, little-endian two's complement
LittleEndianSigned(v, n) ==
    IF v >= 0
    THEN LittleEndian(v, n)
    ELSE [k \in 1 .. n |-> 255 - LittleEndian(-v - 1, n)[k]]

\* struct.unpack of an unsigned little-endian field
RECURSIVE Unsigned(_)
Unsigned(bytes) ==
    IF bytes = <<>> THEN 0 ELSE bytes[1] + 256 * Unsigned(Tail(bytes))

\* struct.unpack of a signed little-endian field
Signed(bytes) ==
    IF Last(bytes) >= 128
    THEN -Unsigned([k \in DOMAIN bytes |-> 255 - bytes[k]]) - 1
    ELSE Unsigned(bytes)

\* struct.pack("<bQiQH", data[0], data[1], data[2], int(data[3]), len(data[4])) and the name
PackRecord(data) ==
    LittleEndianSigned(data[1], 1) \o LittleEndian(data[2], 8)
        \o LittleEndianSigned(data[3], 4) \o LittleEndian(data[4], 8)
        \o LittleEndian(Len(data[5]), 2) \o data[5]

RECURSIVE PackRecords(_)
PackRecords(records) ==
    IF records = <<>> THEN <<>> ELSE PackRecord(Head(records)) \o PackRecords(Tail(records))

\* What test_write_binary writes to test_binary_data.bin.
WriteBinary(records) ==
    LittleEndian(Magic, 4) \o LittleEndian(Len(records), 4) \o PackRecords(records)

\* struct.unpack("<bQiQH", ...) with the timestamp read from the thread id's bytes
UnpackHeaderTimestampFromThread(header) ==
    <<Signed(SubSeq(header, 1, 1)), Unsigned(SubSeq(header, 2, 9)),
      Signed(SubSeq(header, 10, 13)), Unsigned(SubSeq(header, 2, 9)),
      Unsigned(SubSeq(header, 22, 23))>>

\* struct.unpack("<bQiQH", f.read(1+8+4+8+2))
UnpackHeader(header) ==
    <<Signed(SubSeq(header, 1, 1)), Unsigned(SubSeq(header, 2, 9)),
      Signed(SubSeq(header, 10, 13)), Unsigned(SubSeq(header, 14, 21)),
      Unsigned(SubSeq(header, 22, 23))>>

\* name.replace(b"::", b".")
RECURSIVE ReplaceSep(_)
ReplaceSep(name) ==
    IF Len(name) < 2
    THEN name
    ELSE IF SubSeq(name, 1, 2) = Sep
         THEN <<46>> \o ReplaceSep(SubSeq(name, 3, Len(name)))
         ELSE <<name[1]>> \o ReplaceSep(Tail(name))

\* f.read(n) at offset pos (bytes before it): at most n bytes, fewer at the end of the file
Read(bytes, pos, n) ==
    SubSeq(bytes, pos + 1, IF pos + n <= Len(bytes) THEN pos + n ELSE Len(bytes))

Failed(error) == [status |-> error, recordings |-> <<>>]

\* The loop "for _ in range(count)" of the binary decoder, from offset pos.
RECURSIVE ReadRecords(_, _, _)
ReadRecords(bytes, pos, count) ==
    IF count = 0
    THEN [status |-> "binary", recordings |-> <<>>]
    ELSE LET header == Read(bytes, pos, HeaderSize)
         IN  IF Len(header) < HeaderSize
             THEN Failed("struct.error")
             ELSE LET line == UnpackHeader(header)
                      name == Read(bytes, pos + HeaderSize, line[5])
                      rest == ReadRecords(bytes, pos + HeaderSize + Len(name), count - 1)
                  IN  IF rest.status /= "binary"
                      THEN rest
                      ELSE [status |-> "binary",
                            recordings |-> <<<<line[1], line[2], line[3], line[4],
                                               ReplaceSep(name)>>>> \o rest.recordings]

(***************************************************************************)
(* json.dump and json.load, for the texts json.dump writes for a list of   *)
(* records: "[[0, 1, -1, 5, \"A\"], ...]".  Any other text is reported as  *)
(* an error of json.load; the model only loads what was dumped, whole or   *)
(* cut short.                                                              *)
(***************************************************************************)
RECURSIVE Digits(_)
Digits(n) == IF n < 10 THEN <<48 + n>> ELSE Digits(n \div 10) \o <<48 + (n % 10)>>

JsonInt(n) == IF n < 0 THEN <<45>> \o Digits(-n) ELSE Digits(n)

\* ", "
Comma == <<44, 32>>

JsonRecord(data) ==
    <<91>> \o JsonInt(data[1]) \o Comma \o JsonInt(data[2]) \o Comma \o JsonInt(data[3])
        \o Comma \o JsonInt(data[4]) \o Comma \o <<34>> \o data[5] \o <<34, 93>>

RECURSIVE JsonRecords(_)
JsonRecords(records) ==
    IF Len(records) = 1
    THEN JsonRecord(records[1])
    ELSE JsonRecord(Head(records)) \o Comma \o JsonRecords(Tail(records))

\* json.dump(datas, f)
JsonDump(records) ==
    IF records = <<>> THEN <<91, 93>> ELSE <<91>> \o JsonRecords(records) \o <<93>>

\* The text from offset pos starts with the text lit.
StartsWith(bytes, pos, lit) ==
    /\ pos + Len(lit) <= Len(bytes)
    /\ SubSeq(bytes, pos + 1, pos + Len(lit)) = lit

IsDigit(c) == c >= 48 /\ c <= 57

\* The state of the scanner of json.load before the first character: what it
\* expects next (ph), the records and the fields of the record read so far,
\* and the integer or the string being read.
JsonStart ==
    [ph |-> "start", recs |-> <<>>, rec |-> <<>>, num |-> 0, neg |-> FALSE, str |-> <<>>]

\* The scanner after the character c.
JsonStep(s, c) ==
    CASE s.ph = "start" /\ c = 91 -> [s EXCEPT !.ph = "first"]
      [] s.ph = "first" /\ c = 93 -> [s EXCEPT !.ph = "end"]
      [] s.ph \in {"first", "record"} /\ c = 91 -> [s EXCEPT !.ph = "int", !.rec = <<>>]
      [] s.ph = "int" /\ c = 45 -> [s EXCEPT !.ph = "digit", !.neg = TRUE, !.num = 0]
      [] s.ph = "int" /\ IsDigit(c) -> [s EXCEPT !.ph = "digits", !.neg = FALSE, !.num = c - 48]
      [] s.ph = "digit" /\ IsDigit(c) -> [s EXCEPT !.ph = "digits", !.num = c - 48]
      [] s.ph = "digits" /\ IsDigit(c) -> [s EXCEPT !.num = 10 * @ + (c - 48)]
      [] s.ph = "digits" /\ c = 44 ->
            [s EXCEPT !.ph = "space", !.rec = Append(@, IF s.neg THEN -s.num ELSE s.num)]
      [] s.ph = "space" /\ c = 32 ->
            [s EXCEPT !.ph = IF Len(s.rec) < 4 THEN "int" ELSE "quote"]
      [] s.ph = "quote" /\ c = 34 -> [s EXCEPT !.ph = "string", !.str = <<>>]
      [] s.ph = "string" /\ c /= 34 -> [s EXCEPT !.str = Append(@, c)]
      [] s.ph = "string" /\ c = 34 -> [s EXCEPT !.ph = "close", !.rec = Append(@, s.str)]
      [] s.ph = "close" /\ c = 93 -> [s EXCEPT !.ph = "after", !.recs = Append(@, s.rec)]
      [] s.ph = "after" /\ c = 44 -> [s EXCEPT !.ph = "gap"]
      [] s.ph = "gap" /\ c = 32 -> [s EXCEPT !.ph = "record"]
      [] s.ph = "after" /\ c = 93 -> [s EXCEPT !.ph = "end"]
      [] OTHER -> [s EXCEPT !.ph = "error"]

RECURSIVE JsonScan(_, _, _)
JsonScan(bytes, pos, s) ==
    IF s.ph = "error" \/ pos = Len(bytes)
    THEN s
    ELSE JsonScan(bytes, pos + 1, JsonStep(s, bytes[pos + 1]))

JsonResult(s) ==
    IF s.ph = "end" THEN [status |-> "json", recordings |-> s.recs] ELSE Failed("json.error")

\* json.load(f), from the start of the file
JsonLoad(bytes) == JsonResult(JsonScan(bytes, 0, JsonStart))

\* The decoder: the magic number decides between the two formats.
LoadFile(bytes) ==
    IF Len(Read(bytes, 0, 4)) < 4
    THEN Failed("struct.error")
    ELSE IF Unsigned(Read(bytes, 0, 4)) = Magic
    THEN IF Len(Read(bytes, 4, 4)) < 4
         THEN Failed("struct.error")
         ELSE ReadRecords(bytes, 8, Unsigned(Read(bytes, 4, 4)))
    ELSE JsonLoad(bytes)

(***************************************************************************)
(* The environment: the clock and the choice of the program that runs.     *)
(***************************************************************************)
Max(S) == CHOOSE x \in S : \A y \in S : y <= x

\* The wall clock read so far, over all threads.
Now == Max({clock[t] : t \in Threads})

\* Thread t reads the timestamp now.
Tick(t, now) ==
    /\ clock' = [clock EXCEPT ![t] = now]
    /\ ordered' = [ordered EXCEPT ![t] = @ /\ now >= clock[t]]
    /\ UNCHANGED program

\* The frame id a log record carries for the frame argument of a live call.
FrameId(frame) == IF frame = None THEN -1 ELSE frame[1]

\* The frame arguments of the live calls: None, or a frame counter.
Frames == {None} \cup {Some(f) : f \in {f \in FrameIds : f >= 0}}

InitEnv ==
    /\ clock = [t \in Threads |-> 0]
    /\ ordered = [t \in Threads |-> TRUE]

InitReplay ==
    /\ stacks = [t \in Threads |-> <<>>]
    /\ lastEnd = [t \in Threads |-> [f \in FrameIds |-> None]]
    /\ recording = <<>>
    /\ i = 0
    /\ pc = "loop"
    /\ replayQueue = <<>>
    /\ replayNotes = <<>>
    /\ replayChildLog = <<>>

InitLive ==
    /\ collecting = TRUE
    /\ timers = <<>>
    /\ perfStack = [t \in Threads |-> <<>>]
    /\ blocks = [t \in Threads |-> <<>>]
    /\ raised = {}
    /\ perfQueue = <<>>
    /\ annotations = <<>>
    /\ liveChildLog = <<>>

NoReport ==
    /\ recordings = <<>>
    /\ minFrameTime = None
    /\ reportStatus = "none"
    /\ passes = <<>>
    /\ drained = <<>>
    /\ reporting = None

NoFile ==
    /\ datas = <<>>
    /\ file = <<>>
    /\ written = "no"
    /\ truncated = FALSE
    /\ loadResult = None

Init ==
    /\ program \in {"live", "replay"}
    /\ InitEnv
    /\ InitReplay
    /\ InitLive
    /\ NoFile
    /\ NoReport

\* The records a log can hold, over the given operation tags, threads, frame
\* ids, names and timestamps.
RawLogEvents(ops, threads, frameIds, names, ts) ==
    {rec \in ops \X threads \X frameIds \X ts \X (names \cup {<<>>}) :
        \/ rec[1] = Enter /\ rec[5] \in names
        \/ rec[1] = Exit /\ rec[5] = <<>>
        \/ rec[1] = Note /\ rec[5] = NameA
        \/ rec[1] \notin {Enter, Exit, Note} /\ rec[5] = <<>> /\ rec[3] = -1}

\* The replay loop reads the next record of the log.
ReplayStep(ops, threads, frameIds, names, ts) ==
    /\ program = "replay"
    /\ \E rec \in RawLogEvents(ops, threads, frameIds, names, ts) :
          /\ rec[1] = Note => Len(replayNotes) < MaxNotes
          /\ ReplayRecord(rec)
          /\ Tick(rec[2], rec[4])
    /\ UNCHANGED <<liveVars, codecVars, recordings, reportVars>>

\* The regions the live program has entered so far.
Regions == Len(perfQueue) + Cardinality(DOMAIN timers)

LiveWith(threads, frames, names, ts) ==
    /\ program = "live"
    /\ Regions < MaxRegions
    /\ \E t \in threads, blockName \in names, frame \in frames, now \in ts :
          With(t, blockName, frame, now) /\ Tick(t, now)
    /\ UNCHANGED <<replayVars, codecVars, recordings, reportVars>>

LiveEndWith(threads, ts) ==
    /\ program = "live"
    /\ \E t \in threads, now \in ts : EndWith(t, now) /\ Tick(t, now)
    /\ UNCHANGED <<replayVars, codecVars, recordings, reportVars>>

LiveNoteStep(threads, frames, ts) ==
    /\ program = "live"
    /\ \E t \in threads, frame \in frames, now \in ts :
          LiveNote(t, NameA, frame, now) /\ Tick(t, now)
    /\ UNCHANGED <<replayVars, codecVars, recordings, reportVars>>

LiveEnable ==
    /\ program = "live"
    /\ \E enable \in BOOLEAN : EnablePerfTracking(enable)
    /\ UNCHANGED <<envVars, replayVars, codecVars, recordings, reportVars>>

\* The timestamps a clock that never runs backwards can give next.
Later == Now .. MaxTime

(***************************************************************************)
(* Spec: one thread, followed through deep nesting and several frames.     *)
(***************************************************************************)
Next ==
    \/ ReplayStep({Enter, Exit}, {1}, {0}, Names, Later)
    \/ LiveWith({1}, {Some(0)}, Names, Later)
    \/ LiveEndWith({1}, Later)

Spec == Init /\ [][Next]_vars

(***************************************************************************)
(* SpecAnyClock: the same thread with timestamps in any order, as          *)
(* time.time() gives them when the wall clock is set back and as a log     *)
(* file can hold them.                                                     *)
(***************************************************************************)
NextAnyClock ==
    \/ ReplayStep({Enter, Exit}, {1}, {0}, {NameA}, Times)
    \/ LiveWith({1}, {Some(0)}, {NameA}, Times)
    \/ LiveEndWith({1}, Times)

SpecAnyClock == Init /\ [][NextAnyClock]_vars

(***************************************************************************)
(* SpecThreads: two threads whose calls, or whose records in one log,      *)
(* interleave.                                                             *)
(***************************************************************************)
NextThreads ==
    \/ ReplayStep({Enter, Exit}, Threads, {0}, {NameA}, Later)
    \/ LiveWith(Threads, {Some(0)}, {NameA}, Later)
    \/ LiveEndWith(Threads, Later)

SpecThreads == Init /\ [][NextThreads]_vars

(***************************************************************************)
(* SpecEnable: one thread of an instrumented program that switches the     *)
(* collection on and off between its calls.  The clock advances by one     *)
(* tick at each exit of a with-block, while MaxTime allows.                *)
(***************************************************************************)
InitEnable == Init /\ program = "live"

NextEnable ==
    \/ LiveEnable
    \/ LiveWith({1}, {None}, {NameA}, {Now})
    \/ LiveEndWith({1}, {t \in Later : t = Now + 1})
    \/ LiveNoteStep({1}, {None}, {Now})

SpecEnable == InitEnable /\ [][NextEnable]_vars

(***************************************************************************)
(* SpecIsolation: the replay of a log in which the records of two threads  *)
(* interleave, the log being kept whole: the records the loop has read and *)
(* those that follow the record at which it ended.                         *)
(***************************************************************************)
\* Enter and Exit of the replay loop on the stack, the lastEnd entries and
\* the events of one thread alone.
SoloStep(s, rec) ==
    LET threadId == rec[2]
        frameId == rec[3]
        timestamp == rec[4]
        timer == NewTimer(rec[5], TimerFrame(frameId), threadId)
        started(t) == [t EXCEPT !.incstart = timestamp, !.excstart = timestamp]
    IN  IF rec[1] = Enter
        THEN IF s.stack /= <<>>
             THEN LET prev == Suspend(Last(s.stack), timestamp)
                      pushed == [timer EXCEPT !.scopeName = ScopeName(prev, timer.blockName)]
                  IN  [s EXCEPT !.stack = Front(s.stack) \o <<prev, started(pushed)>>]
             ELSE IF s.lastEnd[frameId] /= None
             THEN [s EXCEPT !.stack = <<started(timer)>>,
                            !.lastEnd[frameId] = None,
                            !.queue = Append(@,
                                CompletedEvent(Unknown, timestamp - s.lastEnd[frameId][1],
                                               timestamp - s.lastEnd[frameId][1], threadId,
                                               Some(frameId), s.lastEnd[frameId][1], timestamp))]
             ELSE [s EXCEPT !.stack = <<started(timer)>>]
        ELSE IF s.stack = <<>>
        THEN [s EXCEPT !.pc = "crashed"]
        ELSE LET done == Finish(Last(s.stack), timestamp)
                 event == CompletedEvent(done.scopeName, done.inclusive, done.exclusive,
                                         done.threadId, done.frame, done.incstart, timestamp)
             IN  IF Len(s.stack) >= 2
                 THEN [s EXCEPT !.stack = SubSeq(s.stack, 1, Len(s.stack) - 2)
                                    \o <<Resume(s.stack[Len(s.stack) - 1], timestamp, done.inclusive)>>,
                                !.queue = Append(@, event)]
                 ELSE [s EXCEPT !.stack = <<>>,
                                !.lastEnd[frameId] = Some(timestamp),
                                !.queue = Append(@, event)]

\* The replay loop over the records of one thread, from state s.
RECURSIVE SoloReplay(_, _)
SoloReplay(records, s) ==
    IF s.pc /= "loop" \/ records = <<>>
    THEN s
    ELSE SoloReplay(Tail(records), SoloStep(s, Head(records)))

SoloStart == [stack |-> <<>>, lastEnd |-> [f \in FrameIds |-> None], queue |-> <<>>, pc |-> "loop"]

InitIsolation == Init /\ program = "replay"

\* The log holds one more record; the loop reads it if it is still running.
ReplayLogged(ops, threads, frameIds, names, ts) ==
    /\ program = "replay"
    /\ Len(recordings) < MaxRecords
    /\ \E rec \in RawLogEvents(ops, threads, frameIds, names, ts) :
          /\ recordings' = Append(recordings, rec)
          /\ IF pc = "loop" THEN ReplayRecord(rec) ELSE UNCHANGED replayVars
          /\ Tick(rec[2], rec[4])
    /\ UNCHANGED <<liveVars, codecVars, reportVars>>

NextIsolation ==
    ReplayLogged({Enter, Exit}, Threads, {0}, {NameA}, {t \in Later : t <= Now + 1})

SpecIsolation == InitIsolation /\ [][NextIsolation]_vars

(***************************************************************************)
(* SpecFrames: the replay of a log of one thread whose records carry a     *)
(* frame id or the no-frame id -1, regions and notes.                      *)
(***************************************************************************)
NextFrames ==
    ReplayStep({Enter, Exit, Note}, {1}, FrameIds, {NameA}, {t \in Later : t <= Now + 1})

SpecFrames == InitIsolation /\ [][NextFrames]_vars

(***************************************************************************)
(* SpecBoth: an instrumented program whose calls are also written to a log *)
(* (as the "test" and "test_write_*" programs of __main__ do for the same  *)
(* calls), and the replay loop reading that log record by record.  Each    *)
(* step is one live call together with the replay of its record.           *)
(***************************************************************************)
InitBoth ==
    /\ program = "both"
    /\ InitEnv
    /\ InitReplay
    /\ InitLive
    /\ NoFile
    /\ NoReport

BothWith(threads, frames, names, ts) ==
    /\ program = "both"
    /\ Regions < MaxRegions
    /\ \E t \in threads, blockName \in names, frame \in frames, now \in ts :
          /\ With(t, blockName, frame, now)
          /\ ReplayRecord(<<Enter, t, FrameId(frame), now, blockName>>)
          /\ Tick(t, now)
    /\ UNCHANGED <<codecVars, recordings, reportVars>>

BothEndWith(threads, ts) ==
    /\ program = "both"
    /\ \E t \in threads, now \in ts :
          /\ EndWith(t, now)
          /\ ReplayRecord(<<Exit, t, FrameId(timers[Last(blocks[t])].frame), now, <<>>>>)
          /\ Tick(t, now)
    /\ UNCHANGED <<codecVars, recordings, reportVars>>

NextBoth ==
    \/ BothWith(Threads, Frames, {NameA}, Later)
    \/ BothEndWith(Threads, Later)

SpecBoth == InitBoth /\ [][NextBoth]_vars

(***************************************************************************)
(* SpecCodec: a log is written in one of the two formats, possibly cut     *)
(* short, and decoded.                                                     *)
(***************************************************************************)
\* "A::B"
NameAB == NameA \o Sep \o NameB

\* The records the writer is given: thread ids and timestamps of more than
\* one byte, the "no frame" sentinel, names with and without "::".
CodecEvents == RawLogEvents({Enter, Exit, Note}, {1, 300}, FrameIds, {NameA, NameAB}, {258})

RECURSIVE SeqsUpTo(_, _)
SeqsUpTo(S, n) ==
    IF n = 0
    THEN {<<>>}
    ELSE SeqsUpTo(S, n - 1)
            \cup {Append(q, x) : q \in {q \in SeqsUpTo(S, n - 1) : Len(q) = n - 1}, x \in S}

InitCodec ==
    /\ program = "codec"
    /\ InitEnv
    /\ InitReplay
    /\ InitLive
    /\ datas \in SeqsUpTo(CodecEvents, MaxEvents)
    /\ file = <<>>
    /\ written = "no"
    /\ truncated = FALSE
    /\ loadResult = None
    /\ NoReport

TestWriteBinary ==
    /\ written = "no"
    /\ file' = WriteBinary(datas)
    /\ written' = "binary"
    /\ UNCHANGED <<datas, truncated, loadResult, envVars, replayVars, liveVars, recordings, reportVars>>

TestWriteJson ==
    /\ written = "no"
    /\ file' = JsonDump(datas)
    /\ written' = "json"
    /\ UNCHANGED <<datas, truncated, loadResult, envVars, replayVars, liveVars, recordings, reportVars>>

\* The file loses its end (a writer stopped early, a partial copy).
Truncate ==
    /\ written /= "no"
    /\ ~truncated
    /\ loadResult = None
    /\ \E n \in 0 .. Len(file) - 1 : file' = SubSeq(file, 1, n)
    /\ truncated' = TRUE
    /\ UNCHANGED <<datas, written, loadResult, envVars, replayVars, liveVars, recordings, reportVars>>

Load ==
    /\ written /= "no"
    /\ loadResult = None
    /\ loadResult' = Some(LoadFile(file))
    /\ UNCHANGED <<datas, file, written, truncated, envVars, replayVars, liveVars, recordings, reportVars>>

NextCodec ==
    \/ TestWriteBinary
    \/ TestWriteJson
    \/ Truncate
    \/ Load

SpecCodec == InitCodec /\ [][NextCodec]_vars

(***************************************************************************)
(* SpecNames: one thread, live or replayed from a text log, whose block    *)
(* names are any strings: A, B and "A::B".  (The decoder of the binary log *)
(* turns the "::" of a name into "."; json.load, like PerfTimer itself,    *)
(* takes the name as it is.)  The clock stands still.                      *)
(***************************************************************************)
NextNames ==
    \/ ReplayStep({Enter, Exit}, {1}, {0}, {NameA, NameB, NameAB}, {Now})
    \/ LiveWith({1}, {Some(0)}, {NameA, NameB, NameAB}, {Now})
    \/ LiveEndWith({1}, {Now})

SpecNames == Init /\ [][NextNames]_vars

(***************************************************************************)
(* The report: PerfTimer._printPerfReport aggregates the events of         *)
(* PerfTimer.perfQueue into one row per key, for all threads together      *)
(* (fullreport) and per thread (threadreports), and emits the rows.  A     *)
(* dict is the sequence of its entries in insertion order.                 *)
(***************************************************************************)
TREE == 0
FLAT == 1
HTML == 2

ReportModes == {TREE, FLAT, HTML}

\* [0,0,0,0,0,999999999,999999999], the fields named as in class Position
NewRow ==
    [Inclusive |-> 0, Exclusive |-> 0, Count |-> 0, MaxInc |-> 0, MaxExc |-> 0,
     MinInc |-> 999999999, MinExc |-> 999999999]

Larger(a, b) == IF a >= b THEN a ELSE b

Smaller(a, b) == IF a <= b THEN a ELSE b

\* Where the last "::" of a name starts; 0 when the name has none.
LastSepAt(name) == Max({0} \cup {k \in 1 .. Len(name) - 1 : SubSeq(name, k, k + 1) = Sep})

\* the key of flat mode with the scopeName left whole
FlatKeyWhole(scopeName) == scopeName

\* split = pair[0].rsplit("::", 1); key = split[1] if len(split) == 2 else split[0]
FlatKey(scopeName) ==
    IF LastSepAt(scopeName) = 0
    THEN scopeName
    ELSE SubSeq(scopeName, LastSepAt(scopeName) + 2, Len(scopeName))

\* The key an event is aggregated under.
ReportKey(pair, reportMode) == IF reportMode = FLAT THEN FlatKey(pair[1]) ELSE pair[1]

HasKey(report, key) == \E n \in DOMAIN report : report[n].key = key

\* report.setdefault(key, [0,0,0,0,0,999999999,999999999])
SetDefault(report, key) ==
    IF HasKey(report, key) THEN report ELSE Append(report, [key |-> key, row |-> NewRow])

\* the updates of a row with MaxInc left alone
UpdatedRowWithoutMaxInc(row, inclusive, exclusive) ==
    [Inclusive |-> row.Inclusive + inclusive,
     Exclusive |-> row.Exclusive + exclusive,
     Count |-> row.Count + 1,
     MaxInc |-> row.MaxInc,
     MaxExc |-> Larger(exclusive, row.MaxExc),
     MinInc |-> Smaller(inclusive, row.MinInc),
     MinExc |-> Smaller(exclusive, row.MinExc)]

\* the seven updates of a row: += pair[1], += pair[2], += 1, max, max, min, min
UpdatedRow(row, inclusive, exclusive) ==
    [Inclusive |-> row.Inclusive + inclusive,
     Exclusive |-> row.Exclusive + exclusive,
     Count |-> row.Count + 1,
     MaxInc |-> Larger(inclusive, row.MaxInc),
     MaxExc |-> Larger(exclusive, row.MaxExc),
     MinInc |-> Smaller(inclusive, row.MinInc),
     MinExc |-> Smaller(exclusive, row.MinExc)]

UpdateKey(report, key, inclusive, exclusive) ==
    [n \in DOMAIN report |->
        IF report[n].key = key
        THEN [report[n] EXCEPT !.row = UpdatedRow(@, inclusive, exclusive)]
        ELSE report[n]]

\* setdefault and the updates, for one report
AddPair(report, key, inclusive, exclusive) ==
    UpdateKey(SetDefault(report, key), key, inclusive, exclusive)

HasThread(threadreports, threadId) ==
    \E n \in DOMAIN threadreports : threadreports[n].threadId = threadId

\* threadreports.setdefault(pair[3], {})
SetDefaultThread(threadreports, threadId) ==
    IF HasThread(threadreports, threadId)
    THEN threadreports
    ELSE Append(threadreports, [threadId |-> threadId, report |-> <<>>])

UpdateThread(threadreports, threadId, key, inclusive, exclusive) ==
    [n \in DOMAIN threadreports |->
        IF threadreports[n].threadId = threadId
        THEN [threadreports[n] EXCEPT !.report = AddPair(@, key, inclusive, exclusive)]
        ELSE threadreports[n]]

\* the report of a thread updated for the first event of the thread only
AddPairOfThreadOnce(threadreports, threadId, key, inclusive, exclusive) ==
    IF HasThread(threadreports, threadId)
    THEN threadreports
    ELSE UpdateThread(SetDefaultThread(threadreports, threadId), threadId, key, inclusive, exclusive)

\* setdefault and the updates, for the report of one thread
AddPairOfThread(threadreports, threadId, key, inclusive, exclusive) ==
    UpdateThread(SetDefaultThread(threadreports, threadId), threadId, key, inclusive, exclusive)

NoReports == [fullreport |-> <<>>, threadreports |-> <<>>]

\* The loop "pair = PerfTimer.perfQueue.popleft() ..." over the queue.
RECURSIVE Aggregated(_, _, _)
Aggregated(queue, reportMode, reports) ==
    IF queue = <<>>
    THEN reports
    ELSE Aggregated(Tail(queue), reportMode,
            [fullreport |->
                AddPair(reports.fullreport, ReportKey(Head(queue), reportMode),
                        Head(queue)[2], Head(queue)[3]),
             threadreports |->
                AddPairOfThread(reports.threadreports, Head(queue)[4],
                                ReportKey(Head(queue), reportMode),
                                Head(queue)[2], Head(queue)[3])])

RowOf(report, key) == report[CHOOSE n \in DOMAIN report : report[n].key = key].row

(***************************************************************************)
(* The emission of one report (_printReport, _recurse; _printReportHtml,   *)
(* _recurseHtml): the keys in the order their rows are written.            *)
(***************************************************************************)
\* the sort key with the order turned round
SortKeyAscending(row, reportMode) ==
    IF reportMode = TREE THEN -row.Inclusive ELSE -row.Exclusive

\* key=lambda x: report[x][0] if reportMode == ReportMode.TREE else report[x][1]
SortKey(row, reportMode) ==
    IF reportMode = TREE THEN row.Inclusive ELSE row.Exclusive

\* Where sorted(..., reverse=True) puts an entry among those placed before
\* it: behind every entry whose sort key is not smaller (the sort is stable).
PlaceOf(sorted, entry, reportMode) ==
    Cardinality({n \in DOMAIN sorted :
        SortKey(sorted[n].row, reportMode) >= SortKey(entry.row, reportMode)})

InsertAt(seq, at, x) == SubSeq(seq, 1, at) \o <<x>> \o SubSeq(seq, at + 1, Len(seq))

RECURSIVE Sorted(_, _, _)
Sorted(report, reportMode, sorted) ==
    IF report = <<>>
    THEN sorted
    ELSE Sorted(Tail(report), reportMode,
                InsertAt(sorted, PlaceOf(sorted, Head(report), reportMode), Head(report)))

\* sortedKeys = sorted(report, reverse=True, key=...)
SortedKeys(report, reportMode) ==
    [n \in DOMAIN report |-> Sorted(report, reportMode, <<>>)[n].key]

HasSep(name) == LastSepAt(name) /= 0

\* key.startswith(prefix) and the rest of the key holds no "::"
IsChildKey(key, prefix) ==
    /\ StartsWith(key, 0, prefix)
    /\ ~HasSep(SubSeq(key, Len(prefix) + 1, Len(key)))

\* _recurse / _recurseHtml: the rows under prefix, each followed by the rows
\* under it.  (The set "printed" never holds a key the loop could reach
\* again: a key is a child of one prefix only.)
RECURSIVE Recurse(_, _, _)
Recurse(sortedKeys, prefix, n) ==
    IF n > Len(sortedKeys)
    THEN <<>>
    ELSE IF IsChildKey(sortedKeys[n], prefix)
    THEN <<sortedKeys[n]>> \o Recurse(sortedKeys, sortedKeys[n] \o Sep, 1)
            \o Recurse(sortedKeys, prefix, n + 1)
    ELSE Recurse(sortedKeys, prefix, n + 1)

\* The rows of one table: the keys without "::" in sorted order, each
\* followed by the rows under it.
EmittedKeys(report, reportMode) == Recurse(SortedKeys(report, reportMode), <<>>, 1)

Table(title, threadId, report, reportMode) ==
    [title |-> title, threadId |-> threadId, report |-> report,
     keys |-> EmittedKeys(report, reportMode)]

ReportOfThread(threadreports, threadId) ==
    threadreports[CHOOSE n \in DOMAIN threadreports : threadreports[n].threadId = threadId].report

\* for threadId, report in threadreports.items(): the tables of the threads
\* other than the calling one
RECURSIVE WorkerTables(_, _, _)
WorkerTables(threadreports, caller, reportMode) ==
    IF threadreports = <<>>
    THEN <<>>
    ELSE (IF Head(threadreports).threadId = caller
          THEN <<>>
          ELSE <<Table("Worker Thread", Head(threadreports).threadId,
                       Head(threadreports).report, reportMode)>>)
            \o WorkerTables(Tail(threadreports), caller, reportMode)

MainTable(threadreports, caller, reportMode) ==
    IF HasThread(threadreports, caller)
    THEN <<Table("Main Thread", caller, ReportOfThread(threadreports, caller), reportMode)>>
    ELSE <<>>

CumulativeTable(reports, reportMode) ==
    IF Len(reports.threadreports) /= 1
    THEN <<Table("CUMULATIVE", 0, reports.fullreport, reportMode)>>
    ELSE <<>>

\* What _printPerfReport leaves: the reports, the annotations it took from
\* the queue, the tables written and how it ended.  In the text modes
\* threadreports[threading.current_thread().ident] raises KeyError when the
\* calling thread has no event in the queue; the tables of the other threads
\* are written before that.
TablesOf(reports, caller, reportMode) ==
    IF reports.fullreport = <<>>
    THEN [tables |-> <<>>, status |-> "returned"]
    ELSE IF reportMode /= HTML /\ ~HasThread(reports.threadreports, caller)
    THEN [tables |-> WorkerTables(reports.threadreports, caller, reportMode),
          status |-> "KeyError"]
    ELSE [tables |-> WorkerTables(reports.threadreports, caller, reportMode)
                        \o MainTable(reports.threadreports, caller, reportMode)
                        \o CumulativeTable(reports, reportMode),
          status |-> "returned"]

\* PerfTimer._printPerfReport(reportMode, output, frameId, name) with the
\* given perfQueue and annotations, called by thread caller
Printed(reports, notes, reportMode, frameId, caller) ==
    [reportMode |-> reportMode,
     frameId |-> frameId,
     reports |-> reports,
     annotations |-> notes,
     out |-> TablesOf(reports, caller, reportMode)]

PrintedPass(queue, notes, reportMode, frameId, caller) ==
    Printed(Aggregated(queue, reportMode, NoReports), notes, reportMode, frameId, caller)

(***************************************************************************)
(* PerfTimer.PrintPerfReport: the queue is split by frame, the annotations *)
(* are handed to their frames, and _printPerfReport runs once per frame    *)
(* (and once more over all frames for an HTML report of several frames).   *)
(***************************************************************************)
HasFrame(byFrame, frame) == \E n \in DOMAIN byFrame : byFrame[n].frame = frame

\* the bookkeeping of one event with the earliest start and the latest end
\* kept over all frames together
AddToFramesOfAnyFrame(byFrame, pair) ==
    IF HasFrame(byFrame, pair[5])
    THEN [n \in DOMAIN byFrame |->
            [byFrame[n] EXCEPT !.earliest = Smaller(@, pair[6]),
                               !.latest = Larger(@, pair[7]),
                               !.elements = IF byFrame[n].frame = pair[5]
                                            THEN Append(@, pair) ELSE @]]
    ELSE Append([n \in DOMAIN byFrame |->
                    [byFrame[n] EXCEPT !.earliest = Smaller(@, pair[6]),
                                       !.latest = Larger(@, pair[7])]],
                [frame |-> pair[5], earliest |-> pair[6], latest |-> pair[7],
                 elements |-> <<pair>>, annotations |-> <<>>])

\* the bookkeeping of one event that keeps only the first event of a frame
AddToFramesFirstOnly(byFrame, pair) ==
    IF HasFrame(byFrame, pair[5])
    THEN [n \in DOMAIN byFrame |->
            IF byFrame[n].frame = pair[5]
            THEN [byFrame[n] EXCEPT !.earliest = Smaller(@, pair[6]),
                                    !.latest = Larger(@, pair[7])]
            ELSE byFrame[n]]
    ELSE Append(byFrame,
                [frame |-> pair[5], earliest |-> pair[6], latest |-> pair[7],
                 elements |-> <<pair>>, annotations |-> <<>>])

\* earliestByFrame, latestByFrame, elementsByFrame and annotationsByFrame
\* after one event (PerfTimer.minFrameTime being None)
AddToFrames(byFrame, pair) ==
    IF HasFrame(byFrame, pair[5])
    THEN [n \in DOMAIN byFrame |->
            IF byFrame[n].frame = pair[5]
            THEN [byFrame[n] EXCEPT !.earliest = Smaller(@, pair[6]),
                                    !.latest = Larger(@, pair[7]),
                                    !.elements = Append(@, pair),
                                    !.annotations = <<>>]
            ELSE byFrame[n]]
    ELSE Append(byFrame,
                [frame |-> pair[5], earliest |-> pair[6], latest |-> pair[7],
                 elements |-> <<pair>>, annotations |-> <<>>])

\* The first loop of PrintPerfReport over the queue.
RECURSIVE ByFrame(_, _)
ByFrame(queue, byFrame) ==
    IF queue = <<>>
    THEN byFrame
    ELSE ByFrame(Tail(queue), AddToFrames(byFrame, Head(queue)))

EntryOfFrame(byFrame, frame) ==
    byFrame[CHOOSE n \in DOMAIN byFrame : byFrame[n].frame = frame]

\* annotationsByFrame[frame].append((pair[0], pair[1], pair[2], pair[3] - earliestByFrame[frame]))
AddAnnotation(byFrame, pair) ==
    [n \in DOMAIN byFrame |->
        IF byFrame[n].frame = pair[3]
        THEN [byFrame[n] EXCEPT !.annotations =
                Append(@, <<pair[1], pair[2], pair[3], pair[4] - byFrame[n].earliest>>)]
        ELSE byFrame[n]]

\* The second loop of PrintPerfReport, over the annotations: it ends when
\* the queue is empty, or with the exception of min(earliestByFrame.values())
\* (no event at all) or of earliestByFrame[frame] (no event of that frame);
\* notes holds what is left in PerfTimer.annotations.
RECURSIVE Annotated(_, _)
Annotated(notes, byFrame) ==
    IF notes = <<>>
    THEN [status |-> "ok", byFrame |-> byFrame, notes |-> <<>>]
    ELSE IF byFrame = <<>>
    THEN [status |-> "ValueError", byFrame |-> byFrame, notes |-> Tail(notes)]
    ELSE IF ~HasFrame(byFrame, Head(notes)[3])
    THEN [status |-> "KeyError", byFrame |-> byFrame, notes |-> Tail(notes)]
    ELSE Annotated(Tail(notes), AddAnnotation(byFrame, Head(notes)))

\* The interpreters the module supports (sys.version_info[0]).
PythonMajors == {2, 3}

RECURSIVE Ascending(_)
Ascending(S) ==
    IF S = {}
    THEN <<>>
    ELSE <<CHOOSE x \in S : \A y \in S : x <= y>>
            \o Ascending(S \ {CHOOSE x \in S : \A y \in S : x <= y})

\* sorted(elementsByFrame.keys()) where it is defined: None before the
\* frame numbers (Python 2), the frame numbers in ascending order
SortedFrames(byFrame) ==
    (IF HasFrame(byFrame, None) THEN <<None>> ELSE <<>>)
        \o [n \in 1 .. Cardinality({e \in DOMAIN byFrame : byFrame[e].frame /= None}) |->
               Some(Ascending({byFrame[e].frame[1] :
                        e \in {e \in DOMAIN byFrame : byFrame[e].frame /= None}})[n])]

\* Python 3 does not compare None with an int.
Unorderable(byFrame, major) ==
    /\ major = 3
    /\ HasFrame(byFrame, None)
    /\ \E n \in DOMAIN byFrame : byFrame[n].frame /= None

\* One turn of "for key in sorted(elementsByFrame.keys())".
FramePass(entry, reportMode, caller) ==
    [all |-> FALSE,
     frame |-> entry.frame,
     duration |-> Some(entry.latest - entry.earliest),
     pass |-> PrintedPass(entry.elements, entry.annotations, reportMode, entry.frame, caller)]

\* The passes after framePass are made unless it raised.
Unless(framePass, later) ==
    IF framePass.pass.out.status = "returned" THEN <<framePass>> \o later ELSE <<framePass>>

\* The frames are reported until one report raises.
RECURSIVE FramePasses(_, _, _, _)
FramePasses(frames, byFrame, reportMode, caller) ==
    IF frames = <<>>
    THEN <<>>
    ELSE Unless(FramePass(EntryOfFrame(byFrame, Head(frames)), reportMode, caller),
                FramePasses(Tail(frames), byFrame, reportMode, caller))

\* The report over all frames together, written first by an HTML report of
\* more than one frame (PerfTimer.perfQueue = allFramesQueue; the
\* annotations have all been taken from the queue by then).
AllFramesPass(queue, byFrame, reportMode, caller) ==
    IF Len(byFrame) > 1 /\ reportMode = HTML
    THEN <<[all |-> TRUE, frame |-> None, duration |-> None,
            pass |-> PrintedPass(queue, <<>>, reportMode, None, caller)]>>
    ELSE <<>>

StatusOf(framePasses) ==
    IF framePasses = <<>> THEN "returned" ELSE Last(framePasses).pass.out.status

\* PerfTimer.setMinFrameTime(minTime)
SetMinFrameTime(minTime) ==
    /\ minFrameTime' = Some(minTime)
    /\ UNCHANGED <<reportStatus, passes, drained, reporting>>

\* PerfTimer.PrintPerfReport(reportMode, ...) called by thread caller under
\* Python major, with no producer running.
PrintPerfReport(reportMode, caller, major) ==
    /\ drained' = [events |-> perfQueue, annotations |-> annotations]
    /\ IF minFrameTime /= None /\ perfQueue /= <<>>
       THEN \* "duration" is read at line 560 before it is ever assigned: the
            \* first event taken from the queue raises UnboundLocalError
            /\ reportStatus' = "UnboundLocalError"
            /\ perfQueue' = Tail(perfQueue)
            /\ liveChildLog' = IF liveChildLog = <<>> THEN <<>> ELSE Tail(liveChildLog)
            /\ passes' = <<>>
            /\ UNCHANGED annotations
       ELSE LET annotated == Annotated(annotations, ByFrame(perfQueue, <<>>))
            IN  /\ perfQueue' = <<>>
                /\ liveChildLog' = <<>>
                /\ annotations' = annotated.notes
                /\ IF annotated.status /= "ok"
                   THEN /\ reportStatus' = annotated.status
                        /\ passes' = <<>>
                   ELSE IF Unorderable(annotated.byFrame, major)
                   THEN /\ reportStatus' = "TypeError"
                        /\ passes' = AllFramesPass(perfQueue, annotated.byFrame, reportMode, caller)
                   ELSE LET framePasses == FramePasses(SortedFrames(annotated.byFrame),
                                                       annotated.byFrame, reportMode, caller)
                        IN  /\ passes' = AllFramesPass(perfQueue, annotated.byFrame,
                                                       reportMode, caller) \o framePasses
                            /\ reportStatus' = StatusOf(framePasses)
    /\ UNCHANGED <<minFrameTime, reporting, collecting, timers, perfStack, blocks, raised>>

(***************************************************************************)
(* SpecReport: a program whose producers have stopped, with any events and *)
(* annotations left in the queues, sets the minimum frame time or not and  *)
(* asks for reports.                                                       *)
(***************************************************************************)
NameX == <<88>>
NameY == <<89>>
NameZ == <<90>>

\* An event of the given durations <<inclusive, exclusive>> started at start.
EventAt(scopeName, durations, threadId, frame, start) ==
    CompletedEvent(scopeName, durations[1], durations[2], threadId, frame,
                   start, start + durations[1])

\* The events the queue is filled from: two frames and no frame, two
\* threads, top-level regions and regions under X and under Z, and one
\* region timed while the wall clock was set back.
ReportEvents ==
    {EventAt(NameX, <<1, 1>>, 1, Some(f), 1) : f \in {0, 1}}
        \cup {EventAt(scopeName, <<1, 1>>, 1, Some(0), 2) :
                scopeName \in {NameZ, NameX \o Sep \o NameY, NameZ \o Sep \o NameY}}
        \cup {EventAt(NameX \o Sep \o NameZ, <<2, 2>>, 1, Some(0), 2),
              EventAt(NameX, <<2, 1>>, 2, Some(0), 0),
              EventAt(NameX, <<1, 1>>, 1, None, 1),
              EventAt(NameX, <<-1, -1>>, 1, Some(0), 2)}

\* The annotations the queue is filled from: (txt, thread, frame, time).
ReportNotes == {<<>>, <<<<NameA, 1, Some(0), 2>>>>}

InitReport ==
    /\ program = "report"
    /\ InitEnv
    /\ InitReplay
    /\ NoFile
    /\ NoReport
    /\ collecting = TRUE
    /\ timers = <<>>
    /\ perfStack = [t \in Threads |-> <<>>]
    /\ blocks = [t \in Threads |-> <<>>]
    /\ raised = {}
    /\ perfQueue \in SeqsUpTo(ReportEvents, MaxQueue)
    /\ annotations \in ReportNotes
    /\ liveChildLog = <<>>

\* The threshold is set before the first report is asked for, as __main__
\* does.
ReportSetMinFrameTime ==
    /\ program = "report"
    /\ minFrameTime = None
    /\ reportStatus = "none"
    /\ SetMinFrameTime(MinFrameMs)
    /\ UNCHANGED <<envVars, replayVars, liveVars, codecVars, recordings>>

ReportPrint ==
    /\ program = "report"
    /\ \E reportMode \in ReportModes, caller \in Threads, major \in PythonMajors :
          PrintPerfReport(reportMode, caller, major)
    /\ UNCHANGED <<envVars, replayVars, codecVars, recordings>>

NextReport ==
    \/ ReportSetMinFrameTime
    \/ ReportPrint

SpecReport == InitReport /\ [][NextReport]_vars

(***************************************************************************)
(* PrintPerfReport beside a running producer.  deque.popleft, deque.append *)
(* and the assignment to PerfTimer.perfQueue are atomic, and another       *)
(* thread may run between any two of them: the call is followed one queue  *)
(* operation at a time.  perfQueue is the content of the deque the name    *)
(* PerfTimer.perfQueue is bound to; a deque no name is bound to any more   *)
(* is gone with its content.                                               *)
(***************************************************************************)
\* One turn the loop of line 590 has still to make (all: the combined pass
\* of line 586), with the deques it will bind.
PendingPass(all, entry) ==
    [all |-> all,
     frame |-> entry.frame,
     duration |-> IF all THEN None ELSE Some(entry.latest - entry.earliest),
     elements |-> entry.elements,
     annotations |-> entry.annotations]

\* The passes to make once both queues are drained: over allFramesQueue for
\* an HTML report of several frames, then over the sorted frames.
PendingPasses(byFrame, allFramesQueue, reportMode, major) ==
    (IF Len(byFrame) > 1 /\ reportMode = HTML
     THEN <<PendingPass(TRUE, [frame |-> None, elements |-> allFramesQueue,
                                annotations |-> <<>>])>>
     ELSE <<>>)
        \o (IF Unorderable(byFrame, major)
            THEN <<>>
            ELSE [n \in DOMAIN SortedFrames(byFrame) |->
                    PendingPass(FALSE, EntryOfFrame(byFrame, SortedFrames(byFrame)[n]))])

DropHead(seq) == IF seq = <<>> THEN <<>> ELSE Tail(seq)

\* PrintPerfReport ends, returning or raising, with the given status.
Ended(status) == [reporting EXCEPT !.pc = status]

\* Thread caller calls PerfTimer.PrintPerfReport(reportMode): lines 516-549.
PrintPerfReportBegin(reportMode, caller, major) ==
    /\ reporting = None
    /\ reportStatus = "none"
    /\ reporting' = [pc |-> "drain", reportMode |-> reportMode, caller |-> caller,
                     major |-> major, byFrame |-> <<>>, todo |-> <<>>,
                     after |-> "returned", current |-> None, reports |-> NoReports,
                     taken |-> <<>>]
    /\ drained' = [events |-> <<>>, annotations |-> annotations]
    /\ passes' = <<>>
    /\ UNCHANGED <<minFrameTime, reportStatus, liveVars>>

\* One turn of the loop of lines 550-566 and, when the queue is found empty,
\* the loop over the annotations (567-579) and sorted() of line 590.
PrintPerfReportDrain ==
    /\ reporting /= None
    /\ reporting.pc = "drain"
    /\ IF perfQueue /= <<>>
       THEN /\ perfQueue' = Tail(perfQueue)
            /\ liveChildLog' = DropHead(liveChildLog)
            /\ drained' = [drained EXCEPT !.events = Append(@, Head(perfQueue))]
            /\ IF minFrameTime /= None
               THEN /\ reportStatus' = "UnboundLocalError"
                    /\ reporting' = Ended("UnboundLocalError")
               ELSE /\ reporting' = [reporting EXCEPT
                                        !.byFrame = AddToFrames(@, Head(perfQueue))]
                    /\ UNCHANGED reportStatus
            /\ UNCHANGED annotations
       ELSE LET annotated == Annotated(annotations, reporting.byFrame)
            IN  /\ annotations' = annotated.notes
                /\ IF annotated.status /= "ok"
                   THEN /\ reportStatus' = annotated.status
                        /\ reporting' = Ended(annotated.status)
                   ELSE /\ reporting' =
                            [reporting EXCEPT
                                !.pc = "frames",
                                !.byFrame = annotated.byFrame,
                                !.todo = PendingPasses(annotated.byFrame, drained.events,
                                                       reporting.reportMode, reporting.major),
                                !.after = IF Unorderable(annotated.byFrame, reporting.major)
                                          THEN "TypeError" ELSE "returned"]
                        /\ UNCHANGED reportStatus
                /\ UNCHANGED <<perfQueue, liveChildLog, drained>>
    /\ UNCHANGED <<minFrameTime, passes, collecting, timers, perfStack, blocks, raised>>

\* PerfTimer.perfQueue = allFramesQueue (line 586) or
\* PerfTimer.perfQueue = elementsByFrame[key]; PerfTimer.annotations =
\* annotationsByFrame[key] (lines 600-601): the deque bound until now is
\* dropped.  With no pass left the call returns, or sorted() has raised.
PrintPerfReportRebind ==
    /\ reporting /= None
    /\ reporting.pc = "frames"
    /\ IF reporting.todo = <<>>
       THEN /\ reportStatus' = reporting.after
            /\ reporting' = Ended(reporting.after)
            /\ UNCHANGED <<perfQueue, liveChildLog, annotations>>
       ELSE /\ perfQueue' = Head(reporting.todo).elements
            /\ liveChildLog' = <<>>
            /\ annotations' = IF Head(reporting.todo).all
                              THEN annotations ELSE Head(reporting.todo).annotations
            /\ reporting' = [reporting EXCEPT !.pc = "aggregate",
                                              !.current = Head(reporting.todo),
                                              !.todo = Tail(@),
                                              !.reports = NoReports]
            /\ UNCHANGED reportStatus
    /\ UNCHANGED <<minFrameTime, passes, drained, collecting, timers, perfStack, blocks, raised>>

\* One turn of the loop of _printPerfReport over PerfTimer.perfQueue (lines
\* 717-750) and, when the queue is found empty, the rest of the pass: the
\* annotations are taken and the tables written.
PrintPerfReportAggregate ==
    /\ reporting /= None
    /\ reporting.pc = "aggregate"
    /\ IF perfQueue /= <<>>
       THEN /\ perfQueue' = Tail(perfQueue)
            /\ liveChildLog' = DropHead(liveChildLog)
            /\ reporting' =
                 [reporting EXCEPT
                     !.reports = Aggregated(<<Head(perfQueue)>>, reporting.reportMode, @),
                     !.taken = Append(@, [event |-> Head(perfQueue),
                                          all |-> reporting.current.all,
                                          frame |-> reporting.current.frame])]
            /\ UNCHANGED <<annotations, passes, reportStatus>>
       ELSE LET pass == Printed(reporting.reports, annotations, reporting.reportMode,
                                reporting.current.frame, reporting.caller)
            IN  /\ passes' = Append(passes, [all |-> reporting.current.all,
                                             frame |-> reporting.current.frame,
                                             duration |-> reporting.current.duration,
                                             pass |-> pass])
                /\ annotations' = <<>>
                /\ IF pass.out.status = "returned"
                   THEN /\ reporting' = [reporting EXCEPT !.pc = "frames"]
                        /\ UNCHANGED reportStatus
                   ELSE /\ reportStatus' = pass.out.status
                        /\ reporting' = Ended(pass.out.status)
                /\ UNCHANGED <<perfQueue, liveChildLog>>
    /\ UNCHANGED <<minFrameTime, drained, collecting, timers, perfStack, blocks, raised>>

(***************************************************************************)
(* SpecProducer: thread 1 has timed regions of frames 0 and 1 and asks for *)
(* one text report while thread 2 goes on timing regions of these frames.  *)
(* The clock ticks when thread 2 leaves a region.                          *)
(***************************************************************************)
ProducerEvents == {EventAt(NameX, <<0, 0>>, 1, Some(f), 0) : f \in {0, 1}}

InitProducer ==
    /\ program = "live"
    /\ InitEnv
    /\ InitReplay
    /\ NoFile
    /\ NoReport
    /\ collecting = TRUE
    /\ timers = <<>>
    /\ perfStack = [t \in Threads |-> <<>>]
    /\ blocks = [t \in Threads |-> <<>>]
    /\ raised = {}
    /\ perfQueue \in {q \in SeqsUpTo(ProducerEvents, MaxEvents) :
                        q /= <<>> /\ q[1][5] = Some(0)}
    /\ annotations = <<>>
    /\ liveChildLog = <<>>

ProducerReportBegin ==
    /\ program = "live"
    /\ \E reportMode \in {TREE}, major \in {3} :
          PrintPerfReportBegin(reportMode, 1, major)
    /\ UNCHANGED <<envVars, replayVars, codecVars, recordings>>

ProducerReportStep ==
    /\ program = "live"
    /\ \/ PrintPerfReportDrain
       \/ PrintPerfReportRebind
       \/ PrintPerfReportAggregate
    /\ UNCHANGED <<envVars, replayVars, codecVars, recordings>>

NextProducer ==
    \/ LiveWith({2}, {Some(0), Some(1)}, {NameX}, {Now})
    \/ LiveEndWith({2}, {t \in Later : t = Now + 1})
    \/ ProducerReportBegin
    \/ ProducerReportStep

SpecProducer == InitProducer /\ [][NextProducer]_vars

(***************************************************************************)
(* Helpers of the properties.                                              *)
(***************************************************************************)
\* The fields of a CompletedEvent.
EvScope(e) == e[1]
EvInclusive(e) == e[2]
EvExclusive(e) == e[3]
EvThread(e) == e[4]
EvFrame(e) == e[5]
EvStart(e) == e[6]
EvEnd(e) == e[7]

\* The "::"-join of a non-empty sequence of block names.
RECURSIVE Join(_)
Join(blockNames) ==
    IF Len(blockNames) = 1
    THEN blockNames[1]
    ELSE Join(Front(blockNames)) \o Sep \o Last(blockNames)

\* The timers on thread t's stack, bottom first, on the path that runs.
StackOf(t) ==
    IF program = "live"
    THEN [k \in DOMAIN perfStack[t] |-> timers[perfStack[t][k]]]
    ELSE stacks[t]

(***************************************************************************)
(* C1. Every completed region's exclusive duration is its inclusive        *)
(* duration minus the sum of the inclusive durations of its direct         *)
(* children, on the live path and in replay.                               *)
(***************************************************************************)
C1_ExclusiveIsInclusiveMinusChildren ==
    /\ \A k \in DOMAIN perfQueue :
          EvExclusive(perfQueue[k]) = EvInclusive(perfQueue[k]) - liveChildLog[k]
    /\ \A k \in DOMAIN replayQueue :
          EvExclusive(replayQueue[k]) = EvInclusive(replayQueue[k]) - replayChildLog[k]

\* A parent completed after two children that both took time:
\* Enter A@0, Enter B@0, Exit B@1, Enter B@1, Exit B@2, Exit A@3.
C1_Witness ==
    /\ Len(perfQueue) = 3
    /\ EvScope(perfQueue[3]) = NameA
    /\ EvInclusive(perfQueue[1]) = 1
    /\ EvInclusive(perfQueue[2]) = 1
    /\ liveChildLog[3] = 2
    /\ EvInclusive(perfQueue[3]) = 3
    /\ EvExclusive(perfQueue[3]) = 1

(***************************************************************************)
(* C2. Every CompletedEvent in the queue, appended by the live path or by  *)
(* the replay loop, has 0 <= exclusive <= inclusive.                       *)
(***************************************************************************)
DurationsInRange(e) ==
    /\ 0 <= EvExclusive(e)
    /\ EvExclusive(e) <= EvInclusive(e)

\* as claimed: after any sequence of Enter/Exit operations
C2_DurationsInRangeAlways ==
    /\ \A k \in DOMAIN perfQueue : DurationsInRange(perfQueue[k])
    /\ \A k \in DOMAIN replayQueue : DurationsInRange(replayQueue[k])

\* as amended: for the events of a thread whose timestamps never decreased
C2_DurationsInRangeWhenOrdered ==
    /\ \A k \in DOMAIN perfQueue :
          ordered[EvThread(perfQueue[k])] => DurationsInRange(perfQueue[k])
    /\ \A k \in DOMAIN replayQueue :
          ordered[EvThread(replayQueue[k])] => DurationsInRange(replayQueue[k])

\* A replayed parent with ordered timestamps whose child took part of its time,
\* after a synthetic <unknown> event.
C2_Witness ==
    /\ program = "replay"
    /\ ordered[1]
    /\ \E k \in DOMAIN replayQueue : EvScope(replayQueue[k]) = Unknown
    /\ \E k \in DOMAIN replayQueue :
          /\ 0 < EvExclusive(replayQueue[k])
          /\ EvExclusive(replayQueue[k]) < EvInclusive(replayQueue[k])

(***************************************************************************)
(* C4. Replaying the log of a program's calls gives the CompletedEvents    *)
(* the live stack gave for those calls, field for field.                   *)
(***************************************************************************)
IsRegion(e) == EvScope(e) /= Unknown

C5_UnmatchedExitRecovered ==
    [][(/\ program = "replay"
        /\ i' = i + 1
        /\ recording'[1] = Exit
        /\ stacks[recording'[2]] = <<>>)
       => /\ pc' = "loop"
          /\ \/ lastEnd'[recording'[2]][recording'[3]] = Some(recording'[4])
             \/ /\ Len(replayQueue') = Len(replayQueue) + 1
                /\ EvScope(Last(replayQueue')) = Unknown]_vars

(***************************************************************************)
(* C6. A replayed stream that starts with Exit(T, f, t1) and goes on with  *)
(* Enter(T, f, X, t2): the Exit emits nothing and leaves t1 as the pending *)
(* boundary of (T, f); the Enter then emits exactly one <unknown> event    *)
(* spanning [t1, t2), before X is pushed (so ahead of X's own event).      *)
(***************************************************************************)
C6_LeadingExitBridged ==
    [][/\ (program = "replay" /\ i = 0 /\ i' = 1 /\ recording'[1] = Exit)
          => /\ pc' = "loop"
             /\ replayQueue' = <<>>
             /\ lastEnd'[recording'[2]][recording'[3]] = Some(recording'[4])
       /\ (/\ program = "replay" /\ i = 1 /\ i' = 2
           /\ recording[1] = Exit /\ recording'[1] = Enter
           /\ recording'[2] = recording[2] /\ recording'[3] = recording[3])
          => /\ Len(replayQueue') = 1
             /\ EvScope(replayQueue'[1]) = Unknown
             /\ EvThread(replayQueue'[1]) = recording[2]
             /\ EvStart(replayQueue'[1]) = recording[4]
             /\ EvEnd(replayQueue'[1]) = recording'[4]
             /\ Len(stacks'[recording[2]]) = 1]_vars

(***************************************************************************)
(* C7. In replay, a missing Enter or Exit in one thread's stream does not  *)
(* keep the other threads' records from being processed: after a record of *)
(* one thread, the loop is still running for the regions another thread    *)
(* has in flight.                                                          *)
(***************************************************************************)
C7_OtherThreadsStillProcessed ==
    \A t \in Threads :
        (/\ program = "replay"
         /\ recording /= <<>>
         /\ recording[2] /= t
         /\ stacks[t] /= <<>>)
        => pc = "loop"

(***************************************************************************)
(* C8. Decoding the binary encoding of a sequence of records gives the     *)
(* sequence back, field for field.                                         *)
(***************************************************************************)
Decoded == loadResult[1].recordings

WholeBinaryLoaded == written = "binary" /\ ~truncated /\ loadResult /= None

ContainsSep(name) == \E k \in 1 .. Len(name) - 1 : SubSeq(name, k, k + 1) = Sep

\* as claimed: for every sequence of records with ASCII names
C8_RoundTrip ==
    WholeBinaryLoaded => loadResult[1].status = "binary" /\ Decoded = datas

\* as amended: field for field but for the names, in which the decoder
\* replaces every "::" by "."; identical when no name contains "::"
C8_RoundTripBesidesSep ==
    WholeBinaryLoaded =>
        /\ loadResult[1].status = "binary"
        /\ Len(Decoded) = Len(datas)
        /\ \A k \in DOMAIN datas :
              /\ \A field \in 1 .. 4 : Decoded[k][field] = datas[k][field]
              /\ ~ContainsSep(Decoded[k][5])
              /\ ~ContainsSep(datas[k][5]) => Decoded[k][5] = datas[k][5]
              /\ Decoded[k][5] = ReplaceSep(datas[k][5])

\* Two records decoded from a whole binary file: a two-byte thread id, the
\* "no frame" sentinel, a name with "::" and an empty name.
C8_Witness ==
    /\ WholeBinaryLoaded
    /\ Len(datas) = 2
    /\ datas[1] = <<Enter, 300, -1, 258, NameAB>>
    /\ datas[2] = <<Exit, 300, -1, 258, <<>>>>
    /\ Decoded[1] = <<Enter, 300, -1, 258, <<65, 46, 66>>>>
    /\ Decoded[2] = datas[2]

(***************************************************************************)
(* C9. A file whose first bytes are not the magic number, a text log       *)
(* shorter than four bytes included, is decoded as structured text from    *)
(* its first byte.                                                         *)
(***************************************************************************)
C9_NoMagicFallsBackToJson ==
    (loadResult /= None /\ ~StartsWith(file, 0, LittleEndian(Magic, 4)))
        => loadResult[1] = JsonLoad(file)

(***************************************************************************)
(* C10. A binary log cut short inside a record, in its 23-byte header or   *)
(* in its name, fails the whole decode: the decoder hands over no list of  *)
(* records.                                                                *)
(***************************************************************************)
C10_TruncatedBinaryFails ==
    (written = "binary" /\ truncated /\ loadResult /= None)
        => loadResult[1].status \notin {"binary", "json"}

(***************************************************************************)
(* Helpers of the properties of the report.                                *)
(***************************************************************************)
\* A report was asked for since the program started.
Reported == drained /= <<>>

\* The events the last PrintPerfReport found queued that carry the frame.
EventsOfFrame(frame) == SelectSeq(drained.events, LAMBDA e : EvFrame(e) = frame)

\* The events a pass of the last PrintPerfReport was given.
EventsOfPass(framePass) ==
    IF framePass.all THEN drained.events ELSE EventsOfFrame(framePass.frame)

RECURSIVE SumOf(_)
SumOf(numbers) == IF numbers = <<>> THEN 0 ELSE Head(numbers) + SumOf(Tail(numbers))

MinOf(S) == CHOOSE x \in S : \A y \in S : x <= y

\* comp is what follows the last "::" of name, or name itself when it has none
IsLastComponent(comp, name) ==
    /\ ~ContainsSep(comp)
    /\ \/ name = comp
       \/ /\ Len(name) >= Len(comp) + 2
          /\ SubSeq(name, Len(name) - Len(comp) + 1, Len(name)) = comp
          /\ SubSeq(name, Len(name) - Len(comp) - 1, Len(name) - Len(comp)) = Sep

\* The event e belongs to the group of key in a report of the given mode.
GroupedUnder(e, key, reportMode) ==
    IF reportMode = FLAT THEN IsLastComponent(key, EvScope(e)) ELSE EvScope(e) = key

GroupOf(events, key, reportMode) ==
    SelectSeq(events, LAMBDA e : GroupedUnder(e, key, reportMode))

\* The reports a pass built: the cumulative one and the one of each thread,
\* each with the events it was built from.
ReportsOfPass(framePass) ==
    {[report |-> framePass.pass.reports.fullreport, events |-> EventsOfPass(framePass)]}
        \cup {[report |-> framePass.pass.reports.threadreports[n].report,
               events |-> SelectSeq(EventsOfPass(framePass),
                            LAMBDA e : EvThread(e) =
                                framePass.pass.reports.threadreports[n].threadId)] :
                n \in DOMAIN framePass.pass.reports.threadreports}

(***************************************************************************)
(* C11. Tree aggregation groups the events by their full scopeName, flat   *)
(* aggregation by what follows the last "::": in every report of a pass    *)
(* each key is the group key of at least one event, no key occurs twice,   *)
(* every event's group key is a key, and the count of a key is the number  *)
(* of events grouped under it.                                             *)
(***************************************************************************)
C11_GroupedByScopeNameOrLastComponent ==
    \A k \in DOMAIN passes :
        LET report == passes[k].pass.reports.fullreport
            events == EventsOfPass(passes[k])
            reportMode == passes[k].pass.reportMode
        IN  /\ \A n, m \in DOMAIN report : report[n].key = report[m].key => n = m
            /\ \A n \in DOMAIN report :
                  /\ report[n].row.Count > 0
                  /\ report[n].row.Count = Len(GroupOf(events, report[n].key, reportMode))
            /\ \A j \in DOMAIN events :
                  \E n \in DOMAIN report : GroupedUnder(events[j], report[n].key, reportMode)

\* "X::Y" and "Z::Y" reported flat: one entry "Y" with count 2.
C11_Witness ==
    /\ Reported
    /\ drained.events = <<EventAt(NameX \o Sep \o NameY, <<1, 1>>, 1, Some(0), 2),
                         EventAt(NameZ \o Sep \o NameY, <<1, 1>>, 1, Some(0), 2)>>
    /\ Len(passes) = 1
    /\ passes[1].pass.reportMode = FLAT
    /\ Len(passes[1].pass.reports.fullreport) = 1
    /\ passes[1].pass.reports.fullreport[1].key = NameY
    /\ passes[1].pass.reports.fullreport[1].row.Count = 2

(***************************************************************************)
(* C12. After an aggregation pass every group's count is the number of its *)
(* events, its sums are the totals over them and its minima and maxima are *)
(* the true minima and maxima over them.                                   *)
(***************************************************************************)
RowIsExact(row, group) ==
    /\ row.Count = Len(group)
    /\ row.Inclusive = SumOf([j \in DOMAIN group |-> EvInclusive(group[j])])
    /\ row.Exclusive = SumOf([j \in DOMAIN group |-> EvExclusive(group[j])])
    /\ row.MaxInc = Max({EvInclusive(group[j]) : j \in DOMAIN group})
    /\ row.MaxExc = Max({EvExclusive(group[j]) : j \in DOMAIN group})
    /\ row.MinInc = MinOf({EvInclusive(group[j]) : j \in DOMAIN group})
    /\ row.MinExc = MinOf({EvExclusive(group[j]) : j \in DOMAIN group})

\* The durations lie between the values the rows start from.
DurationsWithinStart(group) ==
    \A j \in DOMAIN group :
        /\ 0 <= EvInclusive(group[j]) /\ EvInclusive(group[j]) <= 999999999
        /\ 0 <= EvExclusive(group[j]) /\ EvExclusive(group[j]) <= 999999999

\* as claimed: for every input multiset of events
C12_RowsExactAlways ==
    \A k \in DOMAIN passes : \A r \in ReportsOfPass(passes[k]) :
        \A n \in DOMAIN r.report :
            RowIsExact(r.report[n].row,
                       GroupOf(r.events, r.report[n].key, passes[k].pass.reportMode))

\* as amended: for the groups whose durations lie in 0 .. 999999999
C12_RowsExactWithinStart ==
    \A k \in DOMAIN passes : \A r \in ReportsOfPass(passes[k]) :
        \A n \in DOMAIN r.report :
            DurationsWithinStart(GroupOf(r.events, r.report[n].key, passes[k].pass.reportMode))
                => RowIsExact(r.report[n].row,
                              GroupOf(r.events, r.report[n].key, passes[k].pass.reportMode))

\* A group of three events of X, of two threads and of different durations.
C12_Witness ==
    /\ Reported
    /\ Len(passes) = 1
    /\ Len(passes[1].pass.reports.threadreports) = 2
    /\ \E n \in DOMAIN passes[1].pass.reports.fullreport :
          /\ passes[1].pass.reports.fullreport[n].row.Count = 3
          /\ passes[1].pass.reports.fullreport[n].row.MinInc = 1
          /\ passes[1].pass.reports.fullreport[n].row.MaxInc = 2
          /\ passes[1].pass.reports.fullreport[n].row.Inclusive = 4
          /\ passes[1].pass.reports.fullreport[n].row.Exclusive = 3

(***************************************************************************)
(* C13. The duration computed for a frame is the latest end less the       *)
(* earliest start over the events of that frame only.                      *)
(***************************************************************************)
C13_FrameDurationOfOwnEvents ==
    \A k \in DOMAIN passes :
        ~passes[k].all =>
            /\ EventsOfFrame(passes[k].frame) /= <<>>
            /\ passes[k].duration =
                  Some(Max({EvEnd(e) : e \in {EventsOfFrame(passes[k].frame)[j] :
                                j \in DOMAIN EventsOfFrame(passes[k].frame)}})
                       - MinOf({EvStart(e) : e \in {EventsOfFrame(passes[k].frame)[j] :
                                j \in DOMAIN EventsOfFrame(passes[k].frame)}}))

\* Frames 0 and 1 reported, frame 0 lasting from 0 to 3 and frame 1 from 1 to 2.
C13_Witness ==
    /\ reportStatus = "returned"
    /\ Len(passes) = 2
    /\ passes[1].frame = Some(0) /\ passes[1].duration = Some(3)
    /\ passes[2].frame = Some(1) /\ passes[2].duration = Some(1)
    /\ Len(EventsOfFrame(Some(0))) = 2

(***************************************************************************)
(* C14. With a minimum frame time configured, a frame shorter than the     *)
(* threshold contributes no entry to the aggregation, and a frame at or    *)
(* above it contributes all of its events.                                 *)
(***************************************************************************)
\* The span of a frame in milliseconds (a tick of the model is a second).
SpanMs(frame) ==
    1000 * (Max({EvEnd(EventsOfFrame(frame)[j]) : j \in DOMAIN EventsOfFrame(frame)})
            - MinOf({EvStart(EventsOfFrame(frame)[j]) : j \in DOMAIN EventsOfFrame(frame)}))

PassesOfFrame(frame) == {k \in DOMAIN passes : ~passes[k].all /\ passes[k].frame = frame}

C14_ShortFramesDropped ==
    (Reported /\ minFrameTime /= None) =>
        \A j \in DOMAIN drained.events :
            LET frame == EvFrame(drained.events[j])
            IN  IF SpanMs(frame) < minFrameTime[1]
                THEN PassesOfFrame(frame) = {}
                ELSE \E k \in PassesOfFrame(frame) :
                        SumOf([n \in DOMAIN passes[k].pass.reports.fullreport |->
                                  passes[k].pass.reports.fullreport[n].row.Count])
                            = Len(EventsOfFrame(frame))

(***************************************************************************)
(* C18. A report that returns has emptied the event queue and the          *)
(* annotation queue, and has aggregated every event it found exactly once  *)
(* in the report of the event's own frame; a report that finds nothing     *)
(* aggregates nothing.                                                     *)
(***************************************************************************)
C18_DrainedExactlyOnce ==
    reportStatus = "returned" =>
        /\ perfQueue = <<>>
        /\ annotations = <<>>
        /\ \A j \in DOMAIN drained.events :
              /\ Cardinality(PassesOfFrame(EvFrame(drained.events[j]))) = 1
              /\ \A k \in PassesOfFrame(EvFrame(drained.events[j])) :
                    SumOf([n \in DOMAIN passes[k].pass.reports.fullreport |->
                              passes[k].pass.reports.fullreport[n].row.Count])
                        = Len(EventsOfFrame(EvFrame(drained.events[j])))
        /\ \A k \in DOMAIN passes :
              ~passes[k].all => EventsOfFrame(passes[k].frame) /= <<>>
        /\ drained.events = <<>> => passes = <<>>

\* Three events of two frames and an annotation, reported in two passes.
C18_Witness ==
    /\ reportStatus = "returned"
    /\ Len(drained.events) = 3
    /\ drained.annotations /= <<>>
    /\ Len(passes) = 2
    /\ perfQueue = <<>>
    /\ annotations = <<>>
    /\ \E k \in DOMAIN passes : passes[k].pass.annotations /= <<>>

(***************************************************************************)
(* C19. A report asked for when no event was collected aggregates nothing, *)
(* writes nothing and raises no error, in every mode, annotations recorded *)
(* or not.                                                                 *)
(***************************************************************************)
C19_NoEventsNoError ==
    (Reported /\ drained.events = <<>>) =>
        /\ reportStatus = "returned"
        /\ passes = <<>>

(***************************************************************************)
(* C20. The rows of a table are written in descending order of the         *)
(* inclusive sum in tree mode and of the exclusive sum in flat mode, at    *)
(* the top level and among the children of one parent.                     *)
(***************************************************************************)
\* What precedes the last "::" of a key; the empty name for a top-level key.
ParentOf(key) ==
    IF ContainsSep(key)
    THEN SubSeq(key, 1, Max({k \in 1 .. Len(key) - 1 : SubSeq(key, k, k + 1) = Sep}) - 1)
    ELSE <<>>

OrderedBy(table, reportMode) ==
    \A a, b \in DOMAIN table.keys :
        (a < b /\ ParentOf(table.keys[a]) = ParentOf(table.keys[b])) =>
            IF reportMode = TREE
            THEN RowOf(table.report, table.keys[a]).Inclusive
                    >= RowOf(table.report, table.keys[b]).Inclusive
            ELSE RowOf(table.report, table.keys[a]).Exclusive
                    >= RowOf(table.report, table.keys[b]).Exclusive

C15_DisabledCallsChangeNothing ==
    [][~collecting =>
        /\ perfQueue' = perfQueue
        /\ annotations' = annotations
        /\ perfStack' = perfStack
        /\ \A t \in Threads : \A k \in DOMAIN perfStack[t] :
              /\ perfStack[t][k] \in DOMAIN timers'
              /\ timers'[perfStack[t][k]] = timers[perfStack[t][k]]]_vars

\* The collection was switched off inside a region, and a with-block was
\* entered after that: it is open and not on the stack.
C15_Witness ==
    /\ ~collecting
    /\ perfStack[1] /= <<>>
    /\ Len(blocks[1]) > Len(perfStack[1])
    /\ perfQueue /= <<>>

(***************************************************************************)
(* C16. The events the replay of an interleaved log produces for a thread  *)
(* are those the replay of that thread's records alone produces.           *)
(***************************************************************************)
C16_ThreadsReplayedAsAlone ==
    program = "replay" =>
        \A t \in Threads :
            SelectSeq(replayQueue, LAMBDA e : EvThread(e) = t)
                = SoloReplay(SelectSeq(recordings, LAMBDA rec : rec[2] = t), SoloStart).queue

\* The same, as long as the loop has not ended on an unmatched Exit.
C16_ThreadsReplayedAsAloneWhileRunning ==
    (program = "replay" /\ pc = "loop") =>
        \A t \in Threads :
            SelectSeq(replayQueue, LAMBDA e : EvThread(e) = t)
                = SoloReplay(SelectSeq(recordings, LAMBDA rec : rec[2] = t), SoloStart).queue

(***************************************************************************)
(* C17. With the collection on, every executed __exit__ appends exactly    *)
(* one event to the shared queue, that of the region it closes (its        *)
(* scopeName, thread, frame and start), after the events already queued;   *)
(* no other step of any thread changes the queue, so a region that is      *)
(* never exited has no event.                                              *)
(***************************************************************************)
C17_OneEventPerExit ==
    [][program = "live" =>
        \A t \in Threads :
            IF Len(blocks'[t]) < Len(blocks[t])
            THEN /\ Len(perfQueue') = Len(perfQueue) + 1
                 /\ SubSeq(perfQueue', 1, Len(perfQueue)) = perfQueue
                 /\ EvScope(Last(perfQueue')) = timers[Last(blocks[t])].scopeName
                 /\ EvThread(Last(perfQueue')) = t
                 /\ EvFrame(Last(perfQueue')) = timers[Last(blocks[t])].frame
                 /\ EvStart(Last(perfQueue')) = timers[Last(blocks[t])].incstart
            ELSE blocks'[t] /= blocks[t] => perfQueue' = perfQueue]_vars

\* Two threads have each exited a region, in an interleaving that left a
\* region of one of them open.
C17_Witness ==
    /\ program = "live"
    /\ Len(perfQueue) = 2
    /\ EvThread(perfQueue[1]) /= EvThread(perfQueue[2])
    /\ \E t \in Threads : blocks[t] /= <<>> /\ perfStack[t] = blocks[t]

(***************************************************************************)
(* C21. Every annotation queued when a report is asked for is delivered to *)
(* the report of its own frame, its timestamp made relative to the         *)
(* earliest start of the events of that frame, whatever frame it carries.  *)
(* (Stated for reports with events queued and no threshold set, in which   *)
(* no frame's tables and no sorting of the frames raised.)                 *)
(***************************************************************************)
C21_NotesDeliveredToOwnFrame ==
    (/\ Reported
     /\ minFrameTime = None
     /\ drained.events /= <<>>
     /\ reportStatus /= "TypeError"
     /\ \A k \in DOMAIN passes : passes[k].pass.out.status = "returned")
    => \A j \in DOMAIN drained.annotations :
          \E k \in PassesOfFrame(drained.annotations[j][3]) :
              \E n \in DOMAIN passes[k].pass.annotations :
                  passes[k].pass.annotations[n] =
                      <<drained.annotations[j][1], drained.annotations[j][2],
                        drained.annotations[j][3],
                        drained.annotations[j][4]
                            - MinOf({EvStart(EventsOfFrame(drained.annotations[j][3])[m]) :
                                        m \in DOMAIN EventsOfFrame(drained.annotations[j][3])})>>

(***************************************************************************)
(* Helpers of the properties of the replay of frames.                      *)
(***************************************************************************)
\* The loop reads a record in this step.
ReadsRecord == program = "replay" /\ pc = "loop" /\ i' = i + 1

\* The events and the annotations the step appends.
NewEvents == {replayQueue'[k] : k \in Len(replayQueue) + 1 .. Len(replayQueue')}

NewNotes == {replayNotes'[k] : k \in Len(replayNotes) + 1 .. Len(replayNotes')}

\* The frame an annotation of the replay carries: a number is kept as read.
NoteFrame(note) == IF note[3] \in Int THEN Some(note[3]) ELSE note[3]

(***************************************************************************)
(* C22. In replay, an Enter of thread T and frame f read while a boundary  *)
(* is pending for (T, f) appends one <unknown> event from the boundary to  *)
(* the Enter's timestamp and clears the boundary, whether the thread's     *)
(* stack is empty or not.                                                  *)
(***************************************************************************)
C22_PendingBoundaryBridged ==
    [][(/\ ReadsRecord
        /\ recording'[1] = Enter
        /\ lastEnd[recording'[2]][recording'[3]] /= None)
       => /\ Len(replayQueue') = Len(replayQueue) + 1
          /\ EvScope(Last(replayQueue')) = Unknown
          /\ EvThread(Last(replayQueue')) = recording'[2]
          /\ EvStart(Last(replayQueue')) = lastEnd[recording'[2]][recording'[3]][1]
          /\ EvEnd(Last(replayQueue')) = recording'[4]
          /\ lastEnd'[recording'[2]][recording'[3]] = None]_vars

(***************************************************************************)
(* C23. In replay, two top-level events of one thread, <unknown> events    *)
(* included, do not overlap in time: one ends no later than the other      *)
(* starts.                                                                 *)
(***************************************************************************)
C23_TopLevelEventsDoNotOverlap ==
    program = "replay" =>
        \A a, b \in DOMAIN replayQueue :
            (/\ a /= b
             /\ EvThread(replayQueue[a]) = EvThread(replayQueue[b])
             /\ ~ContainsSep(EvScope(replayQueue[a]))
             /\ ~ContainsSep(EvScope(replayQueue[b])))
            => \/ EvEnd(replayQueue[a]) <= EvStart(replayQueue[b])
               \/ EvEnd(replayQueue[b]) <= EvStart(replayQueue[a])

(***************************************************************************)
(* C27. Every event and every annotation the replay appends for a record   *)
(* whose frame id is -1 carries the value None as its frame.               *)
(***************************************************************************)
C27_NoFrameIsNone ==
    [][(ReadsRecord /\ recording'[3] = -1)
       => /\ \A e \in NewEvents : EvFrame(e) = None
          /\ \A note \in NewNotes : NoteFrame(note) = None]_vars

(***************************************************************************)
(* C24. Within a thread the event of a child precedes the event of its     *)
(* parent: the region whose event a step appends is the innermost region   *)
(* in flight on its thread, and the regions around it stay in flight, so   *)
(* their events are appended later.  Live and in replay.                   *)
(***************************************************************************)
QueueOfPath == IF program = "live" THEN perfQueue ELSE replayQueue

ScopeNamesOf(stack) == [k \in DOMAIN stack |-> stack[k].scopeName]

C24_ChildrenBeforeParent ==
    [][\A t \in Threads : \A k \in Len(QueueOfPath) + 1 .. Len(QueueOfPath') :
          (IsRegion(QueueOfPath'[k]) /\ EvThread(QueueOfPath'[k]) = t) =>
              LET stack == StackOf(t)
              IN  /\ stack /= <<>>
                  /\ EvScope(QueueOfPath'[k]) = stack[Len(stack)].scopeName
                  /\ EvStart(QueueOfPath'[k]) = stack[Len(stack)].incstart
                  /\ ScopeNamesOf(StackOf(t))'
                        = SubSeq(ScopeNamesOf(stack), 1, Len(stack) - 1)]_vars

\* A child and then its parent completed on thread 1 while a region of
\* thread 2 completed in between.
C24_Witness ==
    /\ Len(QueueOfPath) = 3
    /\ EvScope(QueueOfPath[1]) = NameA \o Sep \o NameA
    /\ EvThread(QueueOfPath[1]) = 1
    /\ EvThread(QueueOfPath[2]) = 2
    /\ EvScope(QueueOfPath[3]) = NameA
    /\ EvThread(QueueOfPath[3]) = 1

(***************************************************************************)
(* C28. In the replay of a well-nested log of one thread and one frame     *)
(* with timestamps that do not decrease, once every region entered has     *)
(* been exited the exclusive durations of all events, <unknown> events     *)
(* included, add up to the time from the first Enter to the last Exit.     *)
(***************************************************************************)
C28_ExclusiveTimesAddUp ==
    (/\ program = "replay"
     /\ pc = "loop"
     /\ replayQueue /= <<>>
     /\ \A t \in Threads : stacks[t] = <<>>)
    => SumOf([k \in DOMAIN replayQueue |-> EvExclusive(replayQueue[k])])
          = Max({EvEnd(replayQueue[k]) : k \in DOMAIN replayQueue})
                - MinOf({EvStart(replayQueue[k]) : k \in DOMAIN replayQueue})

\* A region, a gap bridged by an <unknown> event, and a region with a child,
\* the first three of them taking time.
C28_Witness ==
    /\ program = "replay"
    /\ pc = "loop"
    /\ stacks[1] = <<>>
    /\ Len(replayQueue) = 4
    /\ EvScope(replayQueue[2]) = Unknown
    /\ ContainsSep(EvScope(replayQueue[3]))
    /\ \A k \in 1 .. 3 : EvExclusive(replayQueue[k]) > 0
    /\ EvInclusive(replayQueue[4]) > EvExclusive(replayQueue[4])

(***************************************************************************)
(* C26. In tree mode every key of a report is written exactly once in the  *)
(* table of that report, also when the key of its parent is not in the     *)
(* report.                                                                 *)
(***************************************************************************)
C26_EveryKeyEmittedOnce ==
    \A k \in DOMAIN passes :
        passes[k].pass.reportMode = TREE =>
            \A n \in DOMAIN passes[k].pass.out.tables :
                LET table == passes[k].pass.out.tables[n]
                IN  \A m \in DOMAIN table.report :
                        Cardinality({j \in DOMAIN table.keys :
                                        table.keys[j] = table.report[m].key}) = 1

(***************************************************************************)
(* C29. At all times a thread's stack holds only regions of with-blocks    *)
(* the thread is still inside, and it is empty once the thread has left    *)
(* every with-block, however _collecting was switched in between.          *)
(***************************************************************************)
C29_StackHoldsOpenRegionsOnly ==
    program = "live" =>
        \A t \in Threads :
            /\ \A k \in DOMAIN perfStack[t] :
                  \E j \in DOMAIN blocks[t] : blocks[t][j] = perfStack[t][k]
            /\ blocks[t] = <<>> => perfStack[t] = <<>>

(***************************************************************************)
(* C30. In every pass, for every key, the count and the sums of the        *)
(* cumulative row are the sums over the rows of that key in the threads'   *)
(* reports, its maxima and minima are the maxima and minima over them, and *)
(* every key of a thread's report is a key of the cumulative report.       *)
(***************************************************************************)
ThreadRowsOf(threadreports, key) ==
    LET having == SelectSeq(threadreports, LAMBDA tr : HasKey(tr.report, key))
    IN  [n \in DOMAIN having |-> RowOf(having[n].report, key)]

RowIsTotalOf(row, rows) ==
    /\ rows /= <<>>
    /\ row.Count = SumOf([n \in DOMAIN rows |-> rows[n].Count])
    /\ row.Inclusive = SumOf([n \in DOMAIN rows |-> rows[n].Inclusive])
    /\ row.Exclusive = SumOf([n \in DOMAIN rows |-> rows[n].Exclusive])
    /\ row.MaxInc = Max({rows[n].MaxInc : n \in DOMAIN rows})
    /\ row.MaxExc = Max({rows[n].MaxExc : n \in DOMAIN rows})
    /\ row.MinInc = MinOf({rows[n].MinInc : n \in DOMAIN rows})
    /\ row.MinExc = MinOf({rows[n].MinExc : n \in DOMAIN rows})

C30_CumulativeIsTotalOfThreads ==
    \A k \in DOMAIN passes :
        LET reports == passes[k].pass.reports
        IN  /\ \A n \in DOMAIN reports.fullreport :
                  RowIsTotalOf(reports.fullreport[n].row,
                               ThreadRowsOf(reports.threadreports, reports.fullreport[n].key))
            /\ \A t \in DOMAIN reports.threadreports :
                  \A n \in DOMAIN reports.threadreports[t].report :
                      HasKey(reports.fullreport, reports.threadreports[t].report[n].key)

\* Key X with two events of thread 1 and one longer event of thread 2.
C30_Witness ==
    /\ Reported
    /\ Len(passes) = 1
    /\ Len(passes[1].pass.reports.threadreports) = 2
    /\ Len(passes[1].pass.reports.fullreport) = 1
    /\ passes[1].pass.reports.fullreport[1].row.Count = 3
    /\ \A t \in 1 .. 2 :
          Len(passes[1].pass.reports.threadreports[t].report) = 1
    /\ passes[1].pass.reports.threadreports[1].report[1].row.Count = 2
    /\ passes[1].pass.reports.threadreports[2].report[1].row.MaxInc = 2

(***************************************************************************)
(* C25. Splitting the scopeName of a region on "::" gives the block names  *)
(* of the regions on the stack from the bottom up to the region, for every *)
(* block name PerfTimer or the replay loop is given.                       *)
(***************************************************************************)
\* name.split("::")
RECURSIVE SplitOnSep(_)
SplitOnSep(name) ==
    IF ContainsSep(name)
    THEN LET k == MinOf({j \in 1 .. Len(name) - 1 : SubSeq(name, j, j + 1) = Sep})
         IN  <<SubSeq(name, 1, k - 1)>> \o SplitOnSep(SubSeq(name, k + 2, Len(name)))
    ELSE <<name>>

C25_SplitRecoversChain ==
    \A t \in Threads :
        \A k \in DOMAIN StackOf(t) :
            SplitOnSep(StackOf(t)[k].scopeName) = [j \in 1 .. k |-> StackOf(t)[j].blockName]

(***************************************************************************)
(* C31. An event a producer appends while PrintPerfReport runs is taken by *)
(* the pass of its own frame or is left in the queue: at every step of a   *)
(* report that does not raise, an event that is in the queue stays in the  *)
(* queue, or is kept for the pass of its frame, or has been taken by the   *)
(* pass of its frame.                                                      *)
(***************************************************************************)
CountIn(seq, e) == Cardinality({k \in DOMAIN seq : seq[k] = e})

\* The deques of the frame of e that PrintPerfReport has filled and not yet
\* bound to PerfTimer.perfQueue.
KeptForFrame(e) ==
    IF reporting = None \/ reporting.pc \notin {"drain", "frames", "aggregate"}
    THEN <<>>
    ELSE IF reporting.pc = "drain"
    THEN SelectSeq(reporting.byFrame, LAMBDA entry : entry.frame = EvFrame(e))
    ELSE SelectSeq(reporting.todo, LAMBDA entry : ~entry.all /\ entry.frame = EvFrame(e))

\* The events the pass of the frame of e has taken.
TakenByOwnFrame(e) ==
    IF reporting = None
    THEN <<>>
    ELSE SelectSeq(reporting.taken, LAMBDA took : ~took.all /\ took.frame = EvFrame(e))

\* How often e is in the queue, kept for the pass of its frame, or taken by
\* the pass of its frame.
Accounted(e) ==
    CountIn(perfQueue, e)
        + SumOf([n \in DOMAIN KeptForFrame(e) |-> CountIn(KeptForFrame(e)[n].elements, e)])
        + CountIn([n \in DOMAIN TakenByOwnFrame(e) |-> TakenByOwnFrame(e)[n].event], e)

C31_AppendedEventsNeverLost ==
    [][(reporting' = None \/ reporting'.pc \in {"drain", "frames", "aggregate", "returned"})
          => \A e \in {perfQueue[k] : k \in DOMAIN perfQueue} :
                Accounted(e)' >= Accounted(e)]_vars

(***************************************************************************)
(* C32. A TREE or FLAT report of a queue holding at least one event ends   *)
(* without an exception, whichever threads the events are of and whichever *)
(* thread asks for the report.  (No minimum frame time is set, no          *)
(* annotation is queued and the frames can be sorted: the report fails     *)
(* for none of the reasons of C14, C21 and the None frame.)                *)
(***************************************************************************)
C32_TextReportCompletes ==
    (/\ Reported
     /\ drained.events /= <<>>
     /\ drained.annotations = <<>>
     /\ minFrameTime = None
     /\ reportStatus /= "TypeError"
     /\ \A k \in DOMAIN passes : passes[k].pass.reportMode \in {TREE, FLAT})
    => /\ reportStatus = "returned"
       /\ \A k \in DOMAIN passes : passes[k].pass.out.status = "returned"
       /\ \A e \in DOMAIN drained.events : PassesOfFrame(EvFrame(drained.events[e])) /= {}

(***************************************************************************)
(* C3. The scopeName of a region on a thread's stack is its block name at  *)
(* the bottom of the stack and parent.scopeName + "::" + blockName above   *)
(* it, hence the "::"-join of the block names on the stack from the bottom *)
(* up to the region.                                                       *)
(***************************************************************************)
C3_ScopeNameIsJoinOfStack ==
    \A t \in Threads :
        LET stack == StackOf(t)
        IN  \A k \in DOMAIN stack :
               /\ k = 1 => stack[k].scopeName = stack[k].blockName
               /\ k > 1 => stack[k].scopeName =
                              stack[k - 1].scopeName \o Sep \o stack[k].blockName
               /\ stack[k].scopeName = Join([j \in 1 .. k |-> stack[j].blockName])

\* Three regions nested on the replayed thread: "A::B::A".
C3_Witness ==
    /\ program = "replay"
    /\ Len(stacks[1]) = 3
    /\ stacks[1][3].scopeName = NameA \o Sep \o NameB \o Sep \o NameA

====
